---------------------------- MODULE Spec2Model ----------------------------
(***************************************************************************)
(* CAPITOLWATCH: value parsing, weighted portfolio aggregation, embedding  *)
(* storage, SOM cluster assignment, portfolio metrics, product embeddings, *)
(* the initialization pipeline and the import of reports, modelled from    *)
(*   src/capitolwatch/analysis/portfolio_embeddings_generator.py           *)
(*   src/capitolwatch/services/portfolio_embeddings.py                     *)
(*   src/capitolwatch/services/product_embeddings.py                       *)
(*   src/capitolwatch/analysis/clustering.py                               *)
(*   src/capitolwatch/analysis/portfolio_metrics.py                        *)
(*   src/capitolwatch/analysis/product_embedding_generator.py              *)
(*   src/capitolwatch/analysis/init_analysis.py                            *)
(*   src/capitolwatch/datapipeline/database/import_reports.py              *)
(*   src/capitolwatch/datapipeline/database/parse_report_assets.py         *)
(*                                                                         *)
(* Text is a sequence of one-character strings.  Numbers are exact         *)
(* rationals [k |-> "fin", n, d] in lowest terms, or the IEEE specials     *)
(* "inf", "ninf", "nan" that Python's float() can produce.                 *)
(***************************************************************************)
EXTENDS Integers, Sequences, FiniteSets, TLC

VARIABLES
    \* ---- parse_asset_value(value_str) ----
    value_str,          \* the argument, a text
    parsed,             \* the value returned
    parse_pc,           \* "call" before the call, "returned" after it
    \* ---- create_portfolio_embedding(politician_id, method) ----
    product_rows,       \* product_embeddings rows of the method: id -> vector or Missing
    raw_assets,         \* assets rows of the politician, ORDER BY id
    valid_assets,       \* the local list valid_assets
    embedding_vectors,  \* the local list embedding_vectors
    asset_weights,      \* the local list asset_weights
    entered_rows,       \* history: the raw_assets index behind each embedding_vectors entry
    agg_result,         \* the (vector, metadata) pair returned
    agg_pc,             \* "call" before the call, "returned" after it
    \* ---- the database tables written by the store functions ----
    portfolio_embeddings,   \* table portfolio_embeddings, a set of rows
    product_embeddings,     \* table product_embeddings, a set of rows
    now,                    \* the clock read by CURRENT_TIMESTAMP and datetime.now()
    store_call,             \* history: the last store call, with the time it ran
    store_ret,              \* what the last store call returned
    store_retry,            \* history: the last call repeated the one before it
    portfolio_before,       \* history: portfolio_embeddings before the last call
    product_before,         \* history: product_embeddings before the last call
    store_count,            \* history: the number of store calls made
    \* ---- a PortfolioSOMClustering object ----
    som_params,         \* self.som_x, self.som_y, self.sigma, self.learning_rate
    som,                \* self.som: NoSom or the MiniSom
    scaler,             \* self.scaler: the StandardScaler
    politician_positions,   \* self.politician_positions
    cluster_df,         \* the rows assign_clusters computed last
    model_file,         \* the file written by save_model
    som_error,          \* the exception the last method call raised, or "none"
    som_log,            \* history: the train_som calls that returned, with the grid of each
    assign_log,         \* history: the assign_clusters calls made, with the object of each
    som_call,           \* history: the last method call, with self.som before it
    som_origin,         \* history: the training behind self.som and behind the file
    analysis_result,    \* what run_full_som_analysis returned
    som_ops,            \* history: the number of method calls made
    \* ---- one call of a function of the portfolio metrics ----
    metrics_fn,         \* the function called
    metrics_args,       \* its arguments
    metrics_result,     \* what it returned ([fn |-> "none"] before the return)
    \* ---- one call of a function that generates product embeddings ----
    installed,          \* the optional libraries that can be imported
    products_table,     \* the rows of the products table, ORDER BY id
    embed_call,         \* the function called and its method argument
    embed_result,       \* what it returned or raised
    hash_of,            \* hash(text) % 1000 in the running process
    embed_before,       \* history: the call and the outcome of the process before
    process_runs,       \* history: the number of processes started
    \* ---- the initialization pipeline ----
    assets_table,       \* the asset rows of every politician
    pipe_call,          \* the function called last and its required_methods
    pipe_result,        \* what it returned ("none" before the return)
    pipe_steps,         \* history: the steps the last run of the pipeline made
    pipe_before,        \* history: the call before, its result, the methods it left
    pipe_calls,         \* history: the number of calls made
    \* ---- the import of reports and of their assets ----
    reports_db,         \* table reports, the row of id i at position i
    report_folder,      \* the HTML files of the reports folder, a set of [name, content]
    files_copied,       \* history: the number of files put into the folder from outside
    uuids_drawn,        \* the number of uuid4 values drawn for temporary names
    report_call,        \* history: the last call of download_report or import_reports
    report_result,      \* what it returned or raised
    reports_before,     \* history: table reports before the last call
    folder_before,      \* history: the folder before the last call
    report_calls,       \* history: the number of calls made
    products_db,        \* table products as add_product sees it, id i at position i
    assets_db,          \* table assets, the row of id i at position i
    html_file,          \* the name of the report file handed to process_assets_parsing
    html_table,         \* the rows of its "Part 3. Assets" table
    parsing_call,       \* history: the last call of process_assets_parsing
    parsing_result,     \* what it returned
    parsing_log,        \* history: the extracted index and the id of each row it inserted
    parsing_calls       \* history: the number of calls made

parseVars == <<value_str, parsed, parse_pc>>
aggVars == <<product_rows, raw_assets, valid_assets, embedding_vectors,
             asset_weights, entered_rows, agg_result, agg_pc>>
storeVars == <<portfolio_embeddings, product_embeddings, now, store_call, store_ret,
               store_retry, portfolio_before, product_before, store_count>>
somVars == <<som_params, som, scaler, politician_positions, cluster_df, model_file,
             som_error, som_log, assign_log, som_call,
             som_origin, analysis_result, som_ops>>
metricsVars == <<metrics_fn, metrics_args, metrics_result>>
embedVars == <<installed, products_table, embed_call, embed_result, hash_of,
               embed_before, process_runs>>
pipeVars == <<assets_table, pipe_call, pipe_result, pipe_steps, pipe_before, pipe_calls>>
importVars == <<reports_db, report_folder, files_copied, uuids_drawn, report_call, report_result,
                reports_before, folder_before, report_calls, products_db, assets_db,
                html_file, html_table,
                parsing_call, parsing_result, parsing_log, parsing_calls>>
vars == <<parseVars, aggVars, storeVars, somVars, metricsVars, embedVars, pipeVars,
          importVars>>

(***************************************************************************)
(* Bounds of the model.                                                    *)
(***************************************************************************)
MaxLen == 4             \* symbols in a value text handed to the parser
MaxHoldings == 2        \* asset rows of one politician
MaxStores == 3          \* store calls in one run
MaxClock == 1           \* ticks of the clock in one run
MaxOps == 3             \* method calls on the SOM object in one run
MaxIterations == 2      \* the iterations argument of train_som
MaxSectors == 5         \* sectors of one portfolio
MaxCount == 5           \* assets of one portfolio in one sector
MaxCalls == 3           \* calls made on one database by the pipeline's callers
MaxRuns == 2            \* processes started one after another
MaxProducts == 2        \* rows of the products table
MaxFiles == 1           \* files put into the reports folder from outside
MaxImports == 2         \* calls of download_report and import_reports in one run
MaxAssets == 3          \* rows of the assets table of one report
MaxParsings == 2        \* calls of process_assets_parsing in one run

(***************************************************************************)
(* Exact numbers.                                                          *)
(***************************************************************************)
RECURSIVE Gcd(_, _)
Gcd(a, b) == IF b = 0 THEN a ELSE Gcd(b, a % b)

Abs(x) == IF x < 0 THEN -x ELSE x

\* The rational n/d (d > 0) in lowest terms.
Fin(n, d) ==
    LET g == Gcd(Abs(n), d)
    IN  [k |-> "fin", n |-> n \div g, d |-> d \div g]

PosInf == [k |-> "inf", n |-> 0, d |-> 1]
NegInf == [k |-> "ninf", n |-> 0, d |-> 1]
NaN == [k |-> "nan", n |-> 0, d |-> 1]

IsFin(v) == v.k = "fin"

\* Python's v > 0 on floats: False for nan.
GtZero(v) == v.k = "inf" \/ (v.k = "fin" /\ v.n > 0)

\* Python's a + b on floats (no -inf reaches a sum here).
Add(a, b) ==
    IF a.k = "nan" \/ b.k = "nan" THEN NaN
    ELSE IF a.k = "inf" \/ b.k = "inf" THEN PosInf
    ELSE LET g == Gcd(a.d, b.d)
         IN  Fin(a.n * (b.d \div g) + b.n * (a.d \div g), (a.d \div g) * b.d)

\* Python's a / b on floats for b > 0: inf/inf is nan, x/inf is 0.
Div(a, b) ==
    IF a.k = "nan" \/ b.k = "nan" THEN NaN
    ELSE IF b.k = "inf" THEN (IF a.k = "inf" THEN NaN ELSE Fin(0, 1))
    ELSE IF a.k = "inf" THEN PosInf
    ELSE LET g == Gcd(Abs(a.n), b.n)
             h == Gcd(a.d, b.d)
         IN  Fin((a.n \div g) * (b.d \div h), (a.d \div h) * (b.n \div g))

\* Python's a * b on floats (0 * inf is nan).
Mul(a, b) ==
    IF a.k = "nan" \/ b.k = "nan" THEN NaN
    ELSE IF a.k = "fin" /\ b.k = "fin"
         THEN LET g == Gcd(Abs(a.n), b.d)
                  h == Gcd(Abs(b.n), a.d)
              IN  Fin((a.n \div g) * (b.n \div h), (a.d \div h) * (b.d \div g))
    ELSE IF (a.k = "fin" /\ a.n = 0) \/ (b.k = "fin" /\ b.n = 0) THEN NaN
    ELSE IF (a.k = "ninf" \/ (a.k = "fin" /\ a.n < 0)) = (b.k = "ninf" \/ (b.k = "fin" /\ b.n < 0))
         THEN PosInf
    ELSE NegInf

Leq(a, b) == a.n * b.d <= b.n * a.d    \* for finite a, b

(***************************************************************************)
(* Text helpers: str.strip, str.lower, "in", str.replace, re.findall.      *)
(***************************************************************************)
UpperCase == <<"A", "B", "C", "D", "E", "F", "G", "H", "I", "J", "K", "L", "M",
               "N", "O", "P", "Q", "R", "S", "T", "U", "V", "W", "X", "Y", "Z">>
LowerCase == <<"a", "b", "c", "d", "e", "f", "g", "h", "i", "j", "k", "l", "m",
               "n", "o", "p", "q", "r", "s", "t", "u", "v", "w", "x", "y", "z">>
DigitChars == <<"0", "1", "2", "3", "4", "5", "6", "7", "8", "9">>

IsDigit(c) == \E i \in 1..10 : DigitChars[i] = c
DigitVal(c) == (CHOOSE i \in 1..10 : DigitChars[i] = c) - 1

LowerCh(c) ==
    IF \E i \in 1..26 : UpperCase[i] = c
    THEN LowerCase[CHOOSE i \in 1..26 : UpperCase[i] = c]
    ELSE c

Lower(s) == [i \in 1..Len(s) |-> LowerCh(s[i])]

RECURSIVE LStrip(_)
LStrip(s) == IF s # <<>> /\ Head(s) = " " THEN LStrip(Tail(s)) ELSE s

RECURSIVE RStrip(_)
RStrip(s) ==
    IF s # <<>> /\ s[Len(s)] = " " THEN RStrip(SubSeq(s, 1, Len(s) - 1)) ELSE s

Strip(s) == RStrip(LStrip(s))

\* sub in s
Contains(sub, s) ==
    \E i \in 0..(Len(s) - Len(sub)) : SubSeq(s, i + 1, i + Len(sub)) = sub

\* s.replace(c, "") for a one-character c
Remove(c, s) == SelectSeq(s, LAMBDA x : x # c)

\* a character of the class [\d,]
IsNumCh(c) == IsDigit(c) \/ c = ","

RECURSIVE RunLen(_)
RunLen(s) == IF s # <<>> /\ IsNumCh(Head(s)) THEN 1 + RunLen(Tail(s)) ELSE 0

\* re.findall(r"[\d,]+", s): the maximal runs of digits and commas, in order.
\* re.findall(r"\$?([\d,]+)", s) returns the same list: the optional "$" is
\* outside the group.
RECURSIVE FindRuns(_)
FindRuns(s) ==
    IF s = <<>> THEN <<>>
    ELSE IF IsNumCh(Head(s))
         THEN LET n == RunLen(s)
              IN  <<SubSeq(s, 1, n)>> \o FindRuns(SubSeq(s, n + 1, Len(s)))
         ELSE FindRuns(Tail(s))

RECURSIVE DigitsVal(_)
DigitsVal(s) ==
    IF s = <<>> THEN 0 ELSE 10 * DigitsVal(SubSeq(s, 1, Len(s) - 1)) + DigitVal(s[Len(s)])

RECURSIVE Pow10(_)
Pow10(k) == IF k = 0 THEN 1 ELSE 10 * Pow10(k - 1)

AllDigits(s) == \A i \in 1..Len(s) : IsDigit(s[i])

ValueError == [k |-> "ValueError", n |-> 0, d |-> 1]

\* float(s) for an unsigned s: digits, digits "." digits, "inf", "infinity",
\* "nan"; anything else raises ValueError.  (Exponents and "_" separators are
\* outside the alphabet of the model.)
UnsignedFloat(s) ==
    IF s = <<"i", "n", "f">> \/ s = <<"i", "n", "f", "i", "n", "i", "t", "y">> THEN PosInf
    ELSE IF s = <<"n", "a", "n">> THEN NaN
    ELSE IF s # <<>> /\ AllDigits(s) THEN Fin(DigitsVal(s), 1)
    ELSE IF \E p \in 1..Len(s) :
               /\ s[p] = "."
               /\ Len(s) > 1
               /\ AllDigits(SubSeq(s, 1, p - 1))
               /\ AllDigits(SubSeq(s, p + 1, Len(s)))
         THEN LET p == CHOOSE q \in 1..Len(s) : s[q] = "."
                  ip == SubSeq(s, 1, p - 1)
                  fp == SubSeq(s, p + 1, Len(s))
              IN  Fin(DigitsVal(ip) * Pow10(Len(fp)) + DigitsVal(fp), Pow10(Len(fp)))
    ELSE ValueError

Negate(v) ==
    IF v.k = "fin" THEN Fin(-v.n, v.d)
    ELSE IF v.k = "inf" THEN NegInf
    ELSE v

\* float(s): an optional sign, then an unsigned literal.
PyFloat(s) ==
    IF s # <<>> /\ Head(s) = "-" THEN Negate(UnsignedFloat(Tail(s)))
    ELSE IF s # <<>> /\ Head(s) = "+" THEN UnsignedFloat(Tail(s))
    ELSE UnsignedFloat(s)


(***************************************************************************)
(* parse_asset_value                                                       *)
(***************************************************************************)
UNRESOLVED_NUM == -1            \* the "invalid" return value -1.0
NEGLIGIBLE_VALUE == 500         \* "None (or less than $1,001)"
OVER_MILLION_VALUE == 1500000   \* "Over $1,000,000"
UNASCERTAINABLE_VALUE == 50000  \* "Unascertainable"
FALLBACK_VALUE == 50000         \* returned when a dollar amount raises ValueError

Unresolved == Fin(UNRESOLVED_NUM, 1)

TextNone == <<"n", "o", "n", "e">>
TextNull == <<"n", "u", "l", "l">>
TextNA == <<"n", "/", "a">>
PhraseNegligible ==
    <<"n", "o", "n", "e", " ", "(", "o", "r", " ", "l", "e", "s", "s", " ",
      "t", "h", "a", "n", " ", "$", "1", ",", "0", "0", "1", ")">>
PhraseOverMillion ==
    <<"o", "v", "e", "r", " ", "$", "1", ",", "0", "0", "0", ",", "0", "0", "0">>
PhraseUnascertainable ==
    <<"u", "n", "a", "s", "c", "e", "r", "t", "a", "i", "n", "a", "b", "l", "e">>
RangeMark == <<" ", "-", " ">>
Dollar == <<"$">>

\* float(run.replace(",", "")) for a run of digits and commas
RunValue(run) == PyFloat(Remove(",", run))

\* Lines 55-63: the range branch.  "applies" is FALSE when the branch falls
\* through to the next one (fewer than two runs).
RangeBranch(s, clean) ==
    LET runs == FindRuns(s)
        applies == Contains(RangeMark, clean) /\ Contains(Dollar, clean) /\ Len(runs) >= 2
        low == RunValue(runs[1])
        high == RunValue(runs[2])
    IN  [applies |-> applies,
         value |-> IF ~applies THEN Unresolved
                   ELSE IF low = ValueError \/ high = ValueError
                        THEN Fin(FALLBACK_VALUE, 1)
                   ELSE Div(Add(low, high), Fin(2, 1))]

\* Lines 66-72: the single dollar value branch.
DollarBranch(s, clean) ==
    LET runs == FindRuns(Remove("$", s))
        applies == Contains(Dollar, clean) /\ runs # <<>>
        first == RunValue(runs[1])
    IN  [applies |-> applies,
         value |-> IF ~applies THEN Unresolved
                   ELSE IF first = ValueError THEN Fin(FALLBACK_VALUE, 1)
                   ELSE first]

\* Lines 75-78: direct numeric conversion.
DirectBranch(clean) ==
    LET v == PyFloat(Remove(",", clean))
    IN  IF v = ValueError THEN Unresolved ELSE v

parse_asset_value(s) ==
    IF s = <<>> THEN Unresolved
    ELSE
    LET clean == Lower(Strip(s))
    IN  IF clean \in {TextNone, TextNull, TextNA, <<>>} THEN Unresolved
        ELSE IF Contains(PhraseNegligible, clean) THEN Fin(NEGLIGIBLE_VALUE, 1)
        ELSE IF Contains(PhraseOverMillion, clean) THEN Fin(OVER_MILLION_VALUE, 1)
        ELSE IF Contains(PhraseUnascertainable, clean) THEN Fin(UNASCERTAINABLE_VALUE, 1)
        ELSE IF RangeBranch(s, clean).applies THEN RangeBranch(s, clean).value
        ELSE IF DollarBranch(s, clean).applies THEN DollarBranch(s, clean).value
        ELSE DirectBranch(clean)

(***************************************************************************)
(* The value texts handed to the parser: every concatenation of at most    *)
(* len symbols.     The symbols are pieces of the value column as          *)
(* disclosed (phrases with their capitals) and of hand-entered amounts.    *)
(***************************************************************************)
Symbols ==
    { <<"$">>, <<"1">>, <<"0">>, <<",">>, <<".", "5">>, <<"-">>, <<" ", "-", " ">>,
      <<"x">>, <<"i", "n", "f">>,
      <<"N", "o", "n", "e", " ", "(", "o", "r", " ", "l", "e", "s", "s", " ",
        "t", "h", "a", "n", " ", "$", "1", ",", "0", "0", "1", ")">>,
      <<"O", "v", "e", "r", " ", "$", "1", ",", "0", "0", "0", ",", "0", "0", "0">>,
      <<"U", "n", "a", "s", "c", "e", "r", "t", "a", "i", "n", "a", "b", "l", "e">> }

RECURSIVE Concat(_)
Concat(pieces) == IF pieces = <<>> THEN <<>> ELSE Head(pieces) \o Concat(Tail(pieces))

InputTexts(len) == { Concat(f) : f \in UNION { [1..n -> Symbols] : n \in 0..len } }

(***************************************************************************)
(* create_portfolio_embedding                                              *)
(***************************************************************************)
DEFAULT_VALUE == 25000          \* "Default value for unspecified assets"

\* The products table: the names of the three products the holdings name.
\* (assets.product_id is the integer key of products; the aggregator reads
\* only that key.)
ProductIds == {1, 2, 12}

ProductName(id) ==
    CASE id = 1 -> <<"E", "x", "a", "m", "p", "l", "e", " ", "G", "r", "o", "w", "t", "h",
                     " ", "F", "u", "n", "d">>
      [] id = 2 -> <<"E", "x", "a", "m", "p", "l", "e", " ", "G", "r", "o", "w", "t", "h",
                     " ", "F", "u", "n", "d", " ", "-", " ", "C", "l", "a", "s", "s", " ", "A">>
      [] OTHER -> <<"A", "c", "m", "e", " ", "C", "o", "r", "p">>

\* str(n) for a natural number n
RECURSIVE IntToText(_)
IntToText(n) ==
    IF n < 10 THEN <<DigitChars[n + 1]>>
    ELSE IntToText(n \div 10) \o <<DigitChars[(n % 10) + 1]>>

\* Lines 81-104.
has_child_assets(product_id, all_assets) ==
    LET parent_name == Lower(IntToText(product_id))
    IN  \E a \in 1..Len(all_assets) :
            LET child_product_id == Lower(IntToText(all_assets[a].product_id))
            IN  /\ parent_name # child_product_id
                /\ \/ Contains(parent_name, child_product_id)
                   \/ Contains(child_product_id, parent_name)

\* Lines 149-163, one pass of the loop for the asset at index i (the value
\* Continue stands for "continue").
Continue == [k |-> "skip", n |-> 0, d |-> 1]

\* Lines 153-159: the default for an unresolved value, then "if value > 0".
Defaulted(value, product_id, raw) ==
    IF value # Unresolved THEN value
    ELSE IF has_child_assets(product_id, raw) THEN Continue
    ELSE Fin(DEFAULT_VALUE, 1)

KeepPositive(value) == IF value = Continue \/ ~GtZero(value) THEN Continue ELSE value

FilteredValue(i, raw) ==
    KeepPositive(Defaulted(parse_asset_value(raw[i].value), raw[i].product_id, raw))

\* Lines 148-163: the list valid_assets (row is the index in raw_assets the
\* entry was built from; the code keeps product_id and value).
ValidEntry(i, raw, value) ==
    IF value = Continue THEN <<>>
    ELSE <<[product_id |-> raw[i].product_id, value |-> value, row |-> i]>>

RECURSIVE ValidAssetsFrom(_, _)
ValidAssetsFrom(i, raw) ==
    IF i > Len(raw) THEN <<>>
    ELSE ValidEntry(i, raw, FilteredValue(i, raw)) \o ValidAssetsFrom(i + 1, raw)

Missing == <<>>     \* product_embeddings.get(product_id) is None

\* np.nan_to_num(v, nan=0.0) on a vector of finite or nan coordinates
NanToNum(v) == [j \in 1..Len(v) |-> IF v[j].k = "nan" THEN Fin(0, 1) ELSE v[j]]

AllZero(v) == \A j \in 1..Len(v) : v[j] = Fin(0, 1)

\* Lines 175-182: whether the asset's product has a usable embedding.
HasSignal(rows, product_id) ==
    /\ rows[product_id] # Missing
    /\ ~AllZero(NanToNum(rows[product_id]))

\* Lines 173-188: the valid assets that enter the average, in order.
Entered(rows, valid) == SelectSeq(valid, LAMBDA a : HasSignal(rows, a.product_id))

RECURSIVE SumSeq(_)
SumSeq(ws) == IF ws = <<>> THEN Fin(0, 1) ELSE Add(Head(ws), SumSeq(Tail(ws)))

\* Line 194: np.array(asset_weights) / sum(asset_weights)
NormalizedWeights(weights) == [i \in 1..Len(weights) |-> Div(weights[i], SumSeq(weights))]

\* Lines 195-199: np.average(stacked, axis=0, weights=w), then nan_to_num:
\* coordinate j is sum_i(a[i][j] * w[i]) / sum_i(w[i]).
WeightedAverage(vectors, w) ==
    NanToNum([j \in 1..Len(vectors[1]) |->
                Div(SumSeq([i \in 1..Len(vectors) |-> Mul(vectors[i][j], w[i])]),
                    SumSeq(w))])

NoVector == <<>>

Failure(reason) ==
    [ok |-> FALSE, error |-> reason, vector |-> NoVector,
     asset_count |-> 0, total_value |-> Fin(0, 1)]

ERR_NO_PRODUCT_EMBEDDINGS == "No product embeddings found for method"
ERR_NO_ASSETS == "No assets found"
ERR_NO_VALID_ASSETS == "No valid assets with values"
ERR_NO_VALID_EMBEDDINGS == "No valid embeddings found for assets"

\* get_embeddings(method)["embeddings"] is None: the method has no row.
NoProductRows(rows) == \A p \in DOMAIN rows : rows[p] = Missing

\* A plausible slip: the count of the valid assets, not of those that entered.
AssetCountOfValid(valid, entered) == Len(valid)

\* Line 203.
AssetCount(valid, entered) == Len(entered)

\* A plausible slip: one message for two causes.
FailureReasonMerged(rows, raw, valid, entered) ==
    IF NoProductRows(rows) THEN ERR_NO_PRODUCT_EMBEDDINGS
    ELSE IF raw = <<>> THEN ERR_NO_ASSETS
    ELSE IF valid = <<>> THEN ERR_NO_VALID_ASSETS
    ELSE IF entered = <<>> THEN ERR_NO_VALID_ASSETS
    ELSE "none"

\* Lines 131-134, 144-145, 165-166, 190-191: the early returns, in order.
FailureReason(rows, raw, valid, entered) ==
    IF NoProductRows(rows) THEN ERR_NO_PRODUCT_EMBEDDINGS
    ELSE IF raw = <<>> THEN ERR_NO_ASSETS
    ELSE IF valid = <<>> THEN ERR_NO_VALID_ASSETS
    ELSE IF entered = <<>> THEN ERR_NO_VALID_EMBEDDINGS
    ELSE "none"

\* Lines 192-209: the weighted average and the metadata of a success.
Success(valid, entered, vectors, weights) ==
    [ok |-> TRUE, error |-> "none",
     vector |-> WeightedAverage(vectors, NormalizedWeights(weights)),
     asset_count |-> AssetCount(valid, entered),
     total_value |-> SumSeq(weights)]

\* Lines 190-209: the outcome, given the locals and the reason of the early
\* return ("none" when no early return was taken).
Outcome(valid, entered, vectors, weights, reason) ==
    [valid_assets |-> valid,
     embedding_vectors |-> vectors,
     asset_weights |-> weights,
     entered_rows |-> [i \in 1..Len(entered) |-> entered[i].row],
     result |-> IF reason # "none" THEN Failure(reason)
                ELSE Success(valid, entered, vectors, weights)]

\* Lines 168-188: the loop that collects embedding_vectors and asset_weights.
Collect(rows, raw, valid, entered) ==
    Outcome(valid, entered,
            [i \in 1..Len(entered) |-> NanToNum(rows[entered[i].product_id])],
            [i \in 1..Len(entered) |-> entered[i].value],
            FailureReason(rows, raw, valid, entered))

\* Lines 147-188, given valid_assets.
Aggregate(rows, raw, valid) ==
    Collect(rows, raw, valid, IF valid # <<>> THEN Entered(rows, valid) ELSE <<>>)

\* Lines 107-209.  The locals of a call that returned early keep the values
\* they had at the return (empty where the code never reached them).
create_portfolio_embedding(rows, raw) ==
    Aggregate(rows, raw,
              IF ~NoProductRows(rows) /\ raw # <<>> THEN ValidAssetsFrom(1, raw) ELSE <<>>)

(***************************************************************************)
(* The databases a call can find: each product either has no embedding     *)
(* row, or one of a few vectors (a zero vector and a vector with a nan      *)
(* coordinate among them); each asset row names a product and holds one of  *)
(* a few value texts (value is NOT NULL and not '' by the query).           *)
(***************************************************************************)
EmbeddingChoices ==
    { Missing,
      <<Fin(0, 1), Fin(0, 1)>>,
      <<Fin(2, 1), NaN>>,
      <<Fin(-1, 1), Fin(3, 1)>> }

TextDashes == <<"-", "-">>
TextRange == <<"$", "1", ",", "0", "0", "1", " ", "-", " ", "$", "1", "5", ",", "0", "0", "0">>
TextZero == <<"$", "0">>
TextInf == <<"i", "n", "f">>

ValueTexts == {TextDashes, TextRange, TextZero, TextInf}

AssetRows == [product_id : ProductIds, value : ValueTexts]

AssetLists == UNION { [1..n -> AssetRows] : n \in 0..MaxHoldings }

IdleResult == Failure("idle")

AggIdle ==
    /\ product_rows = <<>>
    /\ raw_assets = <<>>
    /\ valid_assets = <<>>
    /\ embedding_vectors = <<>>
    /\ asset_weights = <<>>
    /\ entered_rows = <<>>
    /\ agg_result = IdleResult
    /\ agg_pc = "idle"

(***************************************************************************)
(* store_portfolio_embedding and store_embeddings.  A table is the set of  *)
(* its rows; a Python value is a record tagged with its type.              *)
(***************************************************************************)
SqlNull == [t |-> "NULL", v |-> <<>>]
PyNone == [t |-> "None", v |-> <<>>]
PyList(items) == [t |-> "list", v |-> items]
PyDict(items) == [t |-> "dict", v |-> items]        \* items: <<key, value>> pairs
NdArray(dtype, values) == [t |-> "ndarray", dtype |-> dtype, v |-> values]

\* json.dumps(x) if x else None: None, [] and {} are all stored as NULL.
JsonOrNull(x) == IF x = PyNone \/ x.v = <<>> THEN SqlNull ELSE [t |-> "json", v |-> x]

\* json.dumps(x)
JsonDumps(x) == [t |-> "json", v |-> x]

\* Lines 48-55 of portfolio_embeddings.py: the blob is the array's bytes in the
\* array's own dtype; a list is first converted to float32.
EmbeddingBlob(embedding_vector) ==
    IF embedding_vector.t = "ndarray"
    THEN [dtype |-> embedding_vector.dtype, v |-> embedding_vector.v]
    ELSE [dtype |-> "float32", v |-> embedding_vector.v]

VectorDimension(embedding_vector) == Len(embedding_vector.v)

\* pickle.dumps(embeddings[i])
PickleDumps(row) == [dtype |-> "pickle", v |-> row]

PORTFOLIO_KEY == {"politician_id", "method"}    \* PRIMARY KEY (politician_id, method)
PRODUCT_KEY == {"product_id", "method"}         \* PRIMARY KEY (product_id, method)

SameKey(r, row, pk) == \A c \in pk : r[c] = row[c]

\* A slip: INSERT OR IGNORE, the row already stored under the key stays.
InsertOrIgnore(table, row, pk) ==
    IF \E r \in table : SameKey(r, row, pk) THEN table ELSE table \cup {row}

\* INSERT OR REPLACE: the rows that conflict on the primary key are deleted,
\* then the new row is inserted.
InsertOrReplace(table, row, pk) ==
    {r \in table : ~SameKey(r, row, pk)} \cup {row}

RECURSIVE MaxRowid(_)
MaxRowid(table) ==
    IF table = {} THEN 0
    ELSE LET r == CHOOSE x \in table : TRUE
             m == MaxRowid(table \ {r})
         IN  IF r.rowid > m THEN r.rowid ELSE m

\* The rowid SQLite gives an inserted row: one more than the largest in use
\* (taken before the conflicting row is deleted).
NextRowid(table) == MaxRowid(table) + 1

\* Lines 59-72 of portfolio_embeddings.py: the row the statement inserts;
\* created_at is not in the column list and takes DEFAULT CURRENT_TIMESTAMP.
PortfolioRow(politician_id, method, a, rowid, at) ==
    [politician_id |-> politician_id,
     method |-> method,
     embedding |-> EmbeddingBlob(a.embedding_vector),
     vector_dimension |-> VectorDimension(a.embedding_vector),
     features_used |-> JsonOrNull(a.features_used),
     asset_count |-> a.asset_count,
     total_value |-> a.total_value,
     created_at |-> at,
     metadata |-> JsonOrNull(a.metadata),
     rowid |-> rowid]

\* Lines 20-74 of portfolio_embeddings.py.
store_portfolio_embedding(table, politician_id, method, a, at) ==
    InsertOrReplace(table,
                    PortfolioRow(politician_id, method, a, NextRowid(table), at),
                    PORTFOLIO_KEY)

\* embedding_vector.tobytes() read four bytes at a time: a float32 number is
\* one word, a float64 number a low and a high word.
RECURSIVE WordsOf(_, _)
WordsOf(dtype, values) ==
    IF values = <<>> THEN <<>>
    ELSE (IF dtype = "float32" THEN <<[bytes |-> "all", of |-> Head(values)]>>
          ELSE <<[bytes |-> "low", of |-> Head(values)],
                 [bytes |-> "high", of |-> Head(values)]>>)
         \o WordsOf(dtype, Tail(values))

\* np.frombuffer(embedding_blob, dtype=np.float32): one number for every
\* four bytes of the blob.
frombuffer(blob) == WordsOf(blob.dtype, blob.v)

\* json.loads(column) if column else the empty value.
JsonLoads(column, empty) == IF column = SqlNull THEN empty ELSE column.v

\* Lines 113-130 of portfolio_embeddings.py: the tuple made of a row.
RowRead(r) ==
    [t |-> "tuple",
     v |-> <<frombuffer(r.embedding),
             [features_used |-> JsonLoads(r.features_used, PyList(<<>>)),
              asset_count |-> r.asset_count,
              total_value |-> r.total_value,
              created_at |-> r.created_at,
              metadata |-> JsonLoads(r.metadata, PyDict(<<>>))]>>]

\* Lines 79-130 of portfolio_embeddings.py.
get_portfolio_embedding(table, politician_id, method) ==
    IF \A r \in table : r.politician_id # politician_id \/ r.method # method THEN PyNone
    ELSE RowRead(CHOOSE r \in table : r.politician_id = politician_id /\ r.method = method)

\* Lines 59-67 of product_embeddings.py: one tuple of batch_data.
ProductRow(product_id, embedding, dimension, method, features_used, metadata, timestamp) ==
    [product_id |-> product_id,
     embedding |-> PickleDumps(embedding),
     method |-> method,
     features_used |-> JsonDumps(features_used),
     vector_dimension |-> dimension,
     updated_at |-> timestamp,
     metadata |-> JsonDumps(metadata)]

\* Lines 70-76 of product_embeddings.py: executemany runs the statement once
\* for each tuple of batch_data, from tuple i on.
RECURSIVE ExecuteMany(_, _, _, _)
ExecuteMany(table, i, c, timestamp) ==
    IF i > Len(c.product_ids) THEN table
    ELSE ExecuteMany(
            InsertOrReplace(table,
                            ProductRow(c.product_ids[i], c.embeddings[i],
                                       Len(c.embeddings[1]), c.method,
                                       c.features_used, c.metadata, timestamp),
                            PRODUCT_KEY),
            i + 1, c, timestamp)

\* Lines 25-88 of product_embeddings.py, called without a connection (as its
\* callers do): the batch is committed before the call returns.
store_embeddings(table, c, timestamp) == ExecuteMany(table, 1, c, timestamp)

(***************************************************************************)
(* The calls made on the store.                                            *)
(***************************************************************************)
PoliticianIds == {"A000001", "B000002"}
PortfolioMethods == {"custom_financial_weighted", "tfidf_basic_weighted"}

\* Two argument lists that differ in every column: an aggregated vector as
\* generate_portfolio_embeddings passes it, and a plain list without metadata.
PortfolioArgs ==
    { [embedding_vector |-> NdArray("float64", <<1, 2>>),
       features_used |-> PyList(<<"product_custom_financial_weighted">>),
       asset_count |-> 2,
       total_value |-> 33000,
       metadata |-> PyDict(<< <<"aggregation", "weighted_average">> >>)],
      [embedding_vector |-> PyList(<<3>>),
       features_used |-> PyNone,
       asset_count |-> 1,
       total_value |-> 500,
       metadata |-> PyDict(<<>>)] }

ProductMethods == {"custom_financial", "tfidf_basic"}

\* product_ids with the rows of the embeddings matrix, one row for each id;
\* the same id may come twice in a batch.
ProductBatches ==
    { [product_ids |-> <<1>>, embeddings |-> << <<1, 0>> >>],
      [product_ids |-> <<1, 2>>, embeddings |-> << <<0, 1>>, <<2, 2>> >>],
      [product_ids |-> <<2, 2>>, embeddings |-> << <<5>>, <<7>> >>] }

ProductCalls ==
    { [product_ids |-> b.product_ids, embeddings |-> b.embeddings, method |-> m,
       features_used |-> PyList(<<"sector", "industry">>),
       metadata |-> PyDict(<< <<"n_products", Len(b.product_ids)>> >>)] :
      b \in ProductBatches, m \in ProductMethods }

NoCall == [fn |-> "none", args |-> <<>>, at |-> 0]

StoreIdle ==
    /\ portfolio_embeddings = {}
    /\ product_embeddings = {}
    /\ now = 0
    /\ store_call = NoCall
    /\ store_ret = PyNone
    /\ store_retry = FALSE
    /\ portfolio_before = {}
    /\ product_before = {}
    /\ store_count = 0

(***************************************************************************)
(* PortfolioSOMClustering.  The numbers of this part are fixed-point:      *)
(* the integer n stands for n / Unit, and every operation rounds down to   *)
(* that resolution (as a float operation rounds to its precision).         *)
(***************************************************************************)
Unit == 1000
RANDOM_SEED == 42       \* random_seed=42

FMul(a, b) == (a * b) \div Unit
FDiv(a, b) == (a * Unit) \div b

\* The largest r in lo..hi with r * r <= n.
RECURSIVE SqrtIn(_, _, _)
SqrtIn(n, lo, hi) ==
    IF lo = hi THEN lo
    ELSE IF ((lo + hi + 1) \div 2) * ((lo + hi + 1) \div 2) <= n
         THEN SqrtIn(n, (lo + hi + 1) \div 2, hi)
         ELSE SqrtIn(n, lo, ((lo + hi + 1) \div 2) - 1)

FSqrt(a) == SqrtIn(a * Unit, 0, 40000)

RECURSIVE SumInts(_)
SumInts(xs) == IF xs = <<>> THEN 0 ELSE Head(xs) + SumInts(Tail(xs))

RECURSIVE ColumnFrom(_, _, _)
ColumnFrom(matrix, i, j) ==
    IF i > Len(matrix) THEN <<>> ELSE <<matrix[i][j]>> \o ColumnFrom(matrix, i + 1, j)

Column(matrix, j) == ColumnFrom(matrix, 1, j)

Mean(xs) == SumInts(xs) \div Len(xs)

RECURSIVE SquaresAround(_, _)
SquaresAround(xs, mean) ==
    IF xs = <<>> THEN <<>>
    ELSE <<FMul(Head(xs) - mean, Head(xs) - mean)>> \o SquaresAround(Tail(xs), mean)

\* The population standard deviation around a given mean.
StdAround(xs, mean) == FSqrt(SumInts(SquaresAround(xs, mean)) \div Len(xs))

\* A scale of zero (a constant column) is replaced by one.
ScaleOf(std) == IF std = 0 THEN Unit ELSE std

\* StandardScaler(): not fitted.
NewScaler == [fitted |-> FALSE, mean_ |-> <<>>, scale_ |-> <<>>]

RECURSIVE Means(_, _)
Means(X, j) ==
    IF j > Len(X[1]) THEN <<>> ELSE <<Mean(Column(X, j))>> \o Means(X, j + 1)

RECURSIVE Scales(_, _, _)
Scales(X, means, j) ==
    IF j > Len(X[1]) THEN <<>>
    ELSE <<ScaleOf(StdAround(Column(X, j), means[j]))>> \o Scales(X, means, j + 1)

Fitted(X, means) == [fitted |-> TRUE, mean_ |-> means, scale_ |-> Scales(X, means, 1)]

\* StandardScaler.fit(X): the statistics are computed anew from X.
ScalerFit(X) == Fitted(X, Means(X, 1))

RECURSIVE ScaledRow(_, _, _)
ScaledRow(sc, row, j) ==
    IF j > Len(row) THEN <<>>
    ELSE <<FDiv(row[j] - sc.mean_[j], sc.scale_[j])>> \o ScaledRow(sc, row, j + 1)

RECURSIVE ScaledRows(_, _, _)
ScaledRows(sc, X, i) ==
    IF i > Len(X) THEN <<>> ELSE <<ScaledRow(sc, X[i], 1)>> \o ScaledRows(sc, X, i + 1)

\* StandardScaler.transform(X)
ScalerTransform(sc, X) == ScaledRows(sc, X, 1)

\* The seeded random source: the k-th number drawn after seeding, in [-1, 1).
LcgM == 65537
LcgA == 75
LcgC == 74

RECURSIVE Lcg(_, _)
Lcg(seed, k) == IF k = 0 THEN seed % LcgM ELSE (LcgA * Lcg(seed, k - 1) + LcgC) % LcgM

RandomWeight(seed, k) == ((Lcg(seed, k) * 2 * Unit) \div LcgM) - Unit

\* The draws k, k + 1, ... that fill one weight vector from coordinate c on.
RECURSIVE RandomVector(_, _, _, _)
RandomVector(seed, k, c, input_len) ==
    IF c > input_len THEN <<>>
    ELSE <<RandomWeight(seed, k)>> \o RandomVector(seed, k + 1, c + 1, input_len)

\* The weight vectors of the neurons n, n + 1, ... of the count neurons.
RECURSIVE RandomVectors(_, _, _, _)
RandomVectors(seed, n, count, input_len) ==
    IF n >= count THEN <<>>
    ELSE <<RandomVector(seed, n * input_len + 1, 1, input_len)>>
         \o RandomVectors(seed, n + 1, count, input_len)

\* MiniSom(x, y, input_len, sigma, learning_rate, random_seed): the weights
\* (kept row-major: neuron (i, j) is entry i * y + j + 1) are drawn from the
\* random source seeded with random_seed.
MiniSom(x, y, input_len, sigma, learning_rate, random_seed) ==
    [x |-> x, y |-> y, input_len |-> input_len, sigma |-> sigma,
     learning_rate |-> learning_rate,
     weights |-> RandomVectors(random_seed, 0, x * y, input_len)]

\* The squared Euclidean distance of two vectors.
RECURSIVE Dist2(_, _)
Dist2(w, v) ==
    IF v = <<>> THEN 0
    ELSE FMul(Head(v) - Head(w), Head(v) - Head(w)) + Dist2(Tail(w), Tail(v))

\* The flat index (row-major, from 0) of the first neuron closest to v among
\* the neurons k and more, best being the closest of those before k.
RECURSIVE BestFrom(_, _, _, _)
BestFrom(weights, v, k, best) ==
    IF k >= Len(weights) THEN best
    ELSE IF Dist2(weights[k + 1], v) < Dist2(weights[best + 1], v)
         THEN BestFrom(weights, v, k + 1, k)
         ELSE BestFrom(weights, v, k + 1, best)

Unravel(k, y) == <<k \div y, k % y>>

\* MiniSom.winner(v): the coordinates of the best matching unit.
Winner(s, v) == Unravel(BestFrom(s.weights, v, 1, 0), s.y)

\* The decay of sigma and of the learning rate at iteration t of T.
Decay(v, t, T) == (v * T) \div (T + 2 * t)

\* A bell around 0, standing for exp(-u): 1 / (1 + u + u^2 / 2).
Bell(u) == (Unit * Unit) \div (Unit + u + (FMul(u, u) \div 2))

GridDist2(n, m) == (n[1] - m[1]) * (n[1] - m[1]) + (n[2] - m[2]) * (n[2] - m[2])

\* The neighbourhood of the winner win at neuron n, for the spread sig.
Neighbourhood(n, win, sig) ==
    Bell((GridDist2(n, win) * Unit * Unit) \div (2 * FMul(sig, sig)))

\* w + g * (v - w), coordinate by coordinate
RECURSIVE MovedVector(_, _, _)
MovedVector(w, v, g) ==
    IF w = <<>> THEN <<>>
    ELSE <<Head(w) + FMul(g, Head(v) - Head(w))>> \o MovedVector(Tail(w), Tail(v), g)

\* The weights of the neurons k, k + 1, ... after the move toward v.
RECURSIVE MovedVectors(_, _, _, _, _, _)
MovedVectors(s, v, win, eta, sig, k) ==
    IF k >= Len(s.weights) THEN <<>>
    ELSE <<MovedVector(s.weights[k + 1], v,
                       FMul(eta, Neighbourhood(Unravel(k, s.y), win, sig)))>>
         \o MovedVectors(s, v, win, eta, sig, k + 1)

\* MiniSom.update(v, win, t, T): every weight moves toward v.
Update(s, v, win, eta, sig) == [s EXCEPT !.weights = MovedVectors(s, v, win, eta, sig, 0)]

\* One iteration on the sample v.
Step(s, v, t, T) ==
    Update(s, v, Winner(s, v), Decay(s.learning_rate, t, T), Decay(s.sigma, t, T))

\* MiniSom.train(data, T): iterations t..T-1, the samples taken in order,
\* cyclically.
RECURSIVE TrainFrom(_, _, _, _)
TrainFrom(s, data, t, T) ==
    IF t >= T THEN s
    ELSE TrainFrom(Step(s, data[(t % Len(data)) + 1], t, T), data, t + 1, T)

Train(s, data, T) == TrainFrom(s, data, 0, T)

NoSom == [x |-> 0, y |-> 0, input_len |-> 0, sigma |-> 0, learning_rate |-> 0,
          weights |-> <<>>]

\* A slip: the map is created only when the object has none that fits, so
\* that a second call trains the map of the first further.
KeptSom(self_som, p, input_len) ==
    IF self_som = NoSom \/ self_som.input_len # input_len
    THEN MiniSom(p.som_x, p.som_y, input_len, p.sigma, p.learning_rate, RANDOM_SEED)
    ELSE self_som

\* Lines 153-158: self.som = MiniSom(...), whatever self.som held.
NewSom(self_som, p, input_len) ==
    MiniSom(p.som_x, p.som_y, input_len, p.sigma, p.learning_rate, RANDOM_SEED)

\* Lines 149-161, given the fitted scaler.
TrainWith(sc, self_som, p, feature_matrix, iterations) ==
    [error |-> "none",
     scaler |-> sc,
     som |-> Train(NewSom(self_som, p, Len(feature_matrix[1])),
                   ScalerTransform(sc, feature_matrix), iterations)]

\* A slip: the map is created before the samples are looked at, so that a
\* call that fails leaves a map behind.
train_som_map_first(self_som, failed_scaler, p, feature_matrix, iterations) ==
    IF feature_matrix = <<>>
    THEN [error |-> "ValueError", scaler |-> failed_scaler, som |-> NewSom(self_som, p, 0)]
    ELSE TrainWith(ScalerFit(feature_matrix), self_som, p, feature_matrix, iterations)

\* Lines 139-165: the scaler and the map after train_som(feature_matrix,
\* iterations).  fit_transform (line 150) raises on a matrix of no samples,
\* before line 154 assigns self.som; failed_scaler is the scaler that failed
\* fit leaves.
train_som(self_som, failed_scaler, p, feature_matrix, iterations) ==
    IF feature_matrix = <<>>
    THEN [error |-> "ValueError", scaler |-> failed_scaler, som |-> self_som]
    ELSE TrainWith(ScalerFit(feature_matrix), self_som, p, feature_matrix, iterations)

\* A slip: the coordinates taken the other way round.
ClusterIdSwapped(winning_neuron, som_y) == winning_neuron[1] + som_y * winning_neuron[2]

\* Line 187.
ClusterId(winning_neuron, som_y) == winning_neuron[1] * som_y + winning_neuron[2]

\* Lines 185-195: the row of cluster_assignments for one politician.
AssignmentRow(politician_id, winning_neuron, som_y) ==
    [politician_id |-> politician_id,
     cluster_x |-> winning_neuron[1],
     cluster_y |-> winning_neuron[2],
     cluster_id |-> ClusterId(winning_neuron, som_y)]

\* A slip: the loop also moves the map toward each politician it places
\* (som.update after som.winner), so that a later query sees another map.
RECURSIVE AssignmentRowsAdapting(_, _, _, _, _)
AssignmentRowsAdapting(self_som, normalized_features, politician_df, som_y, i) ==
    IF i > Len(normalized_features) THEN <<>>
    ELSE <<AssignmentRow(politician_df[i], Winner(self_som, normalized_features[i]), som_y)>>
         \o AssignmentRowsAdapting(
                Update(self_som, normalized_features[i],
                       Winner(self_som, normalized_features[i]),
                       self_som.learning_rate, self_som.sigma),
                normalized_features, politician_df, som_y, i + 1)

\* Lines 185-195 for the rows i, i + 1, ... of normalized_features.
RECURSIVE AssignmentRows(_, _, _, _, _)
AssignmentRows(self_som, normalized_features, politician_df, som_y, i) ==
    IF i > Len(normalized_features) THEN <<>>
    ELSE <<AssignmentRow(politician_df[i], Winner(self_som, normalized_features[i]), som_y)>>
         \o AssignmentRows(self_som, normalized_features, politician_df, som_y, i + 1)

\* What scaler.transform(X) raises: NotFittedError before any fit, ValueError
\* for no samples or for samples of another length than the fitted ones.
TransformError(sc, X) ==
    IF ~sc.fitted THEN "NotFittedError"
    ELSE IF X = <<>> \/ Len(X[1]) # Len(sc.mean_) THEN "ValueError"
    ELSE "none"

\* Lines 181-186: the exception that ends assign_clusters, "none" if it
\* returns.  self.som is None until train_som or load_model set it.
AssignError(self_som, sc, feature_matrix) ==
    IF TransformError(sc, feature_matrix) # "none" THEN TransformError(sc, feature_matrix)
    ELSE IF self_som = NoSom THEN "AttributeError"
    ELSE "none"

\* A slip: an object without a map answers with the first neuron.
assign_clusters_defaulting(self_som, sc, p, feature_matrix, politician_df) ==
    IF AssignError(self_som, sc, feature_matrix) # "none"
    THEN [i \in 1..Len(feature_matrix) |-> AssignmentRow(politician_df[i], <<0, 0>>, p.som_y)]
    ELSE AssignmentRows(self_som, ScalerTransform(sc, feature_matrix), politician_df, p.som_y, 1)

\* A slip: fit_transform where transform is meant.
assign_clusters_refitting(self_som, sc, p, feature_matrix, politician_df) ==
    IF AssignError(self_som, sc, feature_matrix) # "none" THEN <<>>
    ELSE AssignmentRows(self_som, ScalerTransform(ScalerFit(feature_matrix), feature_matrix),
                        politician_df, p.som_y, 1)

\* Lines 181-203: the rows for the politicians of politician_df (no rows
\* when the call raises: nothing is returned).
assign_clusters(self_som, sc, p, feature_matrix, politician_df) ==
    IF AssignError(self_som, sc, feature_matrix) # "none" THEN <<>>
    ELSE AssignmentRows(self_som, ScalerTransform(sc, feature_matrix), politician_df, p.som_y, 1)

\* Lines 357-374: the pickled model_data.
ModelData(self_som, sc, p) == [saved |-> TRUE, som |-> self_som, scaler |-> sc, som_params |-> p]

NoFile == [saved |-> FALSE, som |-> NoSom, scaler |-> NewScaler,
           som_params |-> [som_x |-> 0, som_y |-> 0, sigma |-> 0, learning_rate |-> 0]]

(***************************************************************************)
(* The objects constructed and the arguments passed.                       *)
(***************************************************************************)
GridShapes == {<<2, 2>>, <<2, 3>>, <<3, 2>>}

\* PortfolioSOMClustering(som_x, som_y): sigma = 1.0, learning_rate = 0.5
Constructed(shape) ==
    [som_x |-> shape[1], som_y |-> shape[2], sigma |-> Unit, learning_rate |-> Unit \div 2]

RowA == <<0, 0>>
RowB == <<4 * Unit, 0>>
RowC == <<Unit, 2 * Unit>>
RowD == <<Unit, 0, 3 * Unit>>

FeatureMatrices == {<<RowB, RowA>>, <<RowA, RowB, RowC>>}

\* The same, with a matrix of no samples and one of three features.
AnyMatrices == FeatureMatrices \cup {<<>>, <<RowD>>}

\* The politician_id column of politician_df, one id for each row.
PoliticianDf(feature_matrix) ==
    SubSeq(<<"A000001", "B000002", "C000003">>, 1, Len(feature_matrix))

(***************************************************************************)
(* prepare_data and run_full_som_analysis.  A row of metrics_df carries,   *)
(* next to the columns the filter reads, the feature vector that           *)
(* generate_portfolio_feature_vector builds for that politician.           *)
(***************************************************************************)
MetricsRows ==
    <<[politician_id |-> "A000001", total_assets |-> 3, risk_profile |-> "Balanced",
       features |-> RowA],
      [politician_id |-> "B000002", total_assets |-> 5, risk_profile |-> "Focused",
       features |-> RowB],
      [politician_id |-> "C000003", total_assets |-> 2, risk_profile |-> "Balanced",
       features |-> RowC],
      [politician_id |-> "D000004", total_assets |-> 0, risk_profile |-> "Unknown",
       features |-> RowA]>>

\* The frames get_all_portfolio_metrics can return: any of the politicians.
MetricsFrames ==
    { SelectSeq(MetricsRows, LAMBDA r : r.politician_id \in ids) :
        ids \in SUBSET {MetricsRows[i].politician_id : i \in 1..Len(MetricsRows)} }

\* Lines 73-76.
ValidPoliticians(metrics_df) ==
    SelectSeq(metrics_df, LAMBDA r : r.total_assets >= 3 /\ r.risk_profile # "Unknown")

RECURSIVE FeatureVectors(_)
FeatureVectors(valid) ==
    IF valid = <<>> THEN <<>> ELSE <<Head(valid).features>> \o FeatureVectors(Tail(valid))

RECURSIVE PoliticianData(_)
PoliticianData(valid) ==
    IF valid = <<>> THEN <<>> ELSE <<Head(valid).politician_id>> \o PoliticianData(Tail(valid))

\* Lines 57-137.  A frame of no rows has no column to filter on (KeyError);
\* lines 83-84 raise when the filter keeps nobody.
prepare_data(metrics_df) ==
    [error |-> IF metrics_df = <<>> THEN "KeyError"
               ELSE IF ValidPoliticians(metrics_df) = <<>> THEN "ValueError"
               ELSE "none",
     feature_matrix |-> FeatureVectors(ValidPoliticians(metrics_df)),
     politician_df |-> PoliticianData(ValidPoliticians(metrics_df))]

EmptyDict == [empty |-> TRUE, clustered_politicians |-> <<>>]

\* Lines 478-484: the dict of results.
Results(clustered_df) == [empty |-> FALSE, clustered_politicians |-> clustered_df]

\* The arguments of the train_som call that made a map (none for no map).
NoOrigin == [feature_matrix |-> <<>>, iterations |-> 0]

\* A file another object saved after train_som(<<RowB, RowA>>, 1) on a grid
\* of 2 x 2.
EarlierFile ==
    ModelData(train_som(NoSom, NewScaler, Constructed(<<2, 2>>), <<RowB, RowA>>, 1).som,
              ScalerFit(<<RowB, RowA>>), Constructed(<<2, 2>>))

EarlierOrigin == [feature_matrix |-> <<RowB, RowA>>, iterations |-> 1]

NoSomCall == [fn |-> "none", feature_matrix |-> <<>>, som |-> NoSom]

SomIdle ==
    /\ som_params = NoFile.som_params
    /\ som = NoSom
    /\ scaler = NewScaler
    /\ politician_positions = <<>>
    /\ cluster_df = <<>>
    /\ model_file = NoFile
    /\ som_error = "none"
    /\ som_log = <<>>
    /\ assign_log = <<>>
    /\ som_call = NoSomCall
    /\ som_origin = [object |-> NoOrigin, file |-> NoOrigin]
    /\ analysis_result = EmptyDict
    /\ som_ops = 0

(***************************************************************************)
(* Portfolio metrics: portfolio_metrics.py and                             *)
(* portfolio_metrics_generator.py.  Weights, indices and thresholds are    *)
(* exact rationals; the logarithm is fixed-point, the integer n standing   *)
(* for n / LogUnit.                                                        *)
(***************************************************************************)
LogUnit == 10000

\* a > b and a < b on finite numbers
Gt(a, b) == a.n * b.d > b.n * a.d
Lt(a, b) == a.n * b.d < b.n * a.d

\* sum(weights) == 0 on a list of non-negative numbers
RECURSIVE Total(_)
Total(weights) == IF weights = <<>> THEN Fin(0, 1) ELSE Add(Head(weights), Total(Tail(weights)))

\* [w / total for w in weights]
RECURSIVE Normalized(_, _)
Normalized(weights, total) ==
    IF weights = <<>> THEN <<>>
    ELSE <<Div(Head(weights), total)>> \o Normalized(Tail(weights), total)

\* sum(w ** 2 for w in normalized_weights)
RECURSIVE SumOfSquares(_)
SumOfSquares(ws) ==
    IF ws = <<>> THEN Fin(0, 1) ELSE Add(Mul(Head(ws), Head(ws)), SumOfSquares(Tail(ws)))

\* A slip: the weights are summed, not their squares.
herfindahl_of_weights(weights) ==
    IF weights = <<>> \/ Total(weights) = Fin(0, 1) THEN Fin(0, 1)
    ELSE Total(Normalized(weights, Total(weights)))

\* portfolio_metrics.py lines 30-49 (portfolio_metrics_generator.py lines
\* 18-40 are the same statements).
calculate_herfindahl_index(weights) ==
    IF weights = <<>> \/ Total(weights) = Fin(0, 1) THEN Fin(0, 1)
    ELSE SumOfSquares(Normalized(weights, Total(weights)))

\* z + z^3 / 3 + z^5 / 5 + ... for 0 <= z < 1, from the term power = z^k on.
RECURSIVE AtanhSeries(_, _, _)
AtanhSeries(power, z2, k) ==
    IF power = 0 THEN 0
    ELSE (power \div k) + AtanhSeries((power * z2) \div LogUnit, z2, k + 2)

\* ln x for LogUnit / 2 <= x <= LogUnit: -2 atanh((1 - x) / (1 + x))
LogNearOne(x) ==
    -2 * AtanhSeries(((LogUnit - x) * LogUnit) \div (LogUnit + x),
                     ((((LogUnit - x) * LogUnit) \div (LogUnit + x))
                      * (((LogUnit - x) * LogUnit) \div (LogUnit + x))) \div LogUnit,
                     1)

\* np.log(x) for 0 < x <= 1: ln x = ln 2x - ln 2
RECURSIVE NpLog(_)
NpLog(x) == IF 2 * x < LogUnit THEN NpLog(2 * x) + LogNearOne(LogUnit \div 2) ELSE LogNearOne(x)

\* The fixed-point value of a rational.
ToFixed(w) == (w.n * LogUnit) \div w.d

\* sum(w * np.log(w) for w in normalized_weights), the weights not > 0 left out
RECURSIVE SumWLogW(_, _)
SumWLogW(weights, total) ==
    IF weights = <<>> THEN 0
    ELSE (IF GtZero(Head(weights))
          THEN -((ToFixed(Div(Head(weights), total))
                  * (-NpLog(ToFixed(Div(Head(weights), total))))) \div LogUnit)
          ELSE 0)
         + SumWLogW(Tail(weights), total)

\* A slip: the logarithm to base 2 (bits, not nats).
shannon_entropy_bits(weights) ==
    IF weights = <<>> \/ Total(weights) = Fin(0, 1) THEN 0
    ELSE ((-SumWLogW(weights, Total(weights))) * LogUnit) \div (-LogNearOne(LogUnit \div 2))

\* portfolio_metrics.py lines 52-71.
calculate_shannon_entropy(weights) ==
    IF weights = <<>> \/ Total(weights) = Fin(0, 1) THEN 0
    ELSE -SumWLogW(weights, Total(weights))

\* A slip: six sectors are not yet enough.
classify_more_than_six(herfindahl_index, num_sectors, concentration_ratio) ==
    IF Gt(concentration_ratio, Fin(7, 10)) \/ Gt(herfindahl_index, Fin(5, 10))
    THEN "Concentrated"
    ELSE IF num_sectors > 6 /\ Lt(herfindahl_index, Fin(25, 100)) THEN "Diversified"
    ELSE IF Gt(concentration_ratio, Fin(4, 10)) THEN "Focused"
    ELSE "Balanced"

\* portfolio_metrics.py lines 220-243.
classify_risk_profile(herfindahl_index, num_sectors, concentration_ratio) ==
    IF Gt(concentration_ratio, Fin(7, 10)) \/ Gt(herfindahl_index, Fin(5, 10))
    THEN "Concentrated"
    ELSE IF num_sectors >= 6 /\ Lt(herfindahl_index, Fin(25, 100)) THEN "Diversified"
    ELSE IF Gt(concentration_ratio, Fin(4, 10)) THEN "Focused"
    ELSE "Balanced"

\* A slip: the thresholds of the other classification.
generator_classify_other_thresholds(hhi_value, sector_count, dominant_sector_weight) ==
    IF Gt(dominant_sector_weight, Fin(7, 10)) \/ Gt(hhi_value, Fin(5, 10)) THEN "Aggressive"
    ELSE IF sector_count >= 6 /\ Lt(hhi_value, Fin(25, 100)) THEN "Conservative"
    ELSE "Balanced"

\* portfolio_metrics_generator.py lines 71-100.
generator_classify_risk_profile(hhi_value, sector_count, dominant_sector_weight) ==
    IF Gt(dominant_sector_weight, Fin(6, 10)) \/ Gt(hhi_value, Fin(5, 10)) THEN "Aggressive"
    ELSE IF sector_count >= 5 /\ Lt(hhi_value, Fin(3, 10)) THEN "Conservative"
    ELSE "Balanced"

\* max(sector_weights)
RECURSIVE MaxWeight(_)
MaxWeight(ws) ==
    IF Len(ws) = 1 THEN Head(ws)
    ELSE IF Gt(Head(ws), MaxWeight(Tail(ws))) THEN Head(ws) ELSE MaxWeight(Tail(ws))

\* The counts of a sector distribution as numbers.
RECURSIVE AsNumbers(_)
AsNumbers(counts) ==
    IF counts = <<>> THEN <<>> ELSE <<Fin(Head(counts), 1)>> \o AsNumbers(Tail(counts))

NoMetrics == [returned |-> "None", total_assets |-> 0, risk_profile |-> "", sector_count |-> 0]

\* portfolio_metrics_generator.py lines 144-174, given the sector values.
MetricsOf(sector_values) ==
    [returned |-> "dict",
     total_assets |-> Total(sector_values).n,
     risk_profile |->
         generator_classify_risk_profile(
             calculate_herfindahl_index(sector_values), Len(sector_values),
             MaxWeight(Normalized(sector_values, Total(sector_values)))),
     sector_count |-> Len(sector_values)]

\* portfolio_metrics_generator.py lines 103-174: politician_info is what
\* get_politician_basic_info found (FALSE for nothing), sector_distribution
\* the counts of get_sector_distribution_for_politician, largest first.
calculate_politician_metrics(politician_info, sector_distribution) ==
    IF ~politician_info THEN NoMetrics
    ELSE IF sector_distribution = <<>>
         THEN [returned |-> "dict", total_assets |-> 0, risk_profile |-> "Unknown",
               sector_count |-> 0]
    ELSE MetricsOf(AsNumbers(sector_distribution))

(***************************************************************************)
(* The arguments of the calls.                                             *)
(***************************************************************************)
\* The lists of at most sectors counts of lowest..highest, largest first
\* (the distribution query orders by the count, descending).
CountLists(sectors, lowest, highest) ==
    UNION { { s \in [1..n -> lowest..highest] : \A i \in 1..(n - 1) : s[i] >= s[i + 1] } :
            n \in 0..sectors }

\* The weights count / total of a list of counts (zeros for a total of zero).
RECURSIVE WeightsFrom(_, _)
WeightsFrom(counts, total) ==
    IF counts = <<>> THEN <<>>
    ELSE <<IF total = 0 THEN Fin(0, 1) ELSE Fin(Head(counts), total)>>
         \o WeightsFrom(Tail(counts), total)

\* Index values and weights in steps of 1/20, which hits every threshold.
Twentieths == {Fin(k, 20) : k \in 0..20}

NoArgs == [weights |-> <<>>, herfindahl_index |-> Fin(0, 1), num_sectors |-> 0,
           concentration_ratio |-> Fin(0, 1), politician_info |-> FALSE,
           sector_distribution |-> <<>>]

NoMetricsResult == [fn |-> "none"]

MetricsIdle ==
    /\ metrics_fn = "none"
    /\ metrics_args = NoArgs
    /\ metrics_result = NoMetricsResult
(***************************************************************************)
(* Product embeddings: product_embedding_generator.py and the dispatch of  *)
(* embeddings.py.  A product is its id, name and sector (the other columns *)
(* NULL); a text is a list of words; a vector is a row of cells that stand *)
(* for the numbers computed for the row.                                   *)
(***************************************************************************)
SUPPORTED_METHODS == {"custom_financial", "tfidf_basic", "word2vec", "glove"}

NoText == ""                \* a NULL column
ShortWords == {"a"}         \* words of fewer than two letters
StopWords == {"the"}        \* words of the English stop word lists

\* An exception of the type with the parts of its message, and a value returned.
Raise(type, message) == [kind |-> "raised", type |-> type, message |-> message]
Return(value) == [kind |-> "returned", value |-> value]

\* The words of seq, without the NULLs, the short words (short_out) and the
\* stop words (stop_out).
RECURSIVE Words(_, _, _)
Words(seq, short_out, stop_out) ==
    IF seq = <<>> THEN <<>>
    ELSE (IF Head(seq) = NoText \/ (short_out /\ Head(seq) \in ShortWords)
             \/ (stop_out /\ Head(seq) \in StopWords)
          THEN <<>> ELSE <<Head(seq)>>)
         \o Words(Tail(seq), short_out, stop_out)

\* products.py lines 276-284 (embeddings.py lines 180-186 with the "if f" of
\* its callers): the text features that are not NULL or empty.
TextFeatures(product) == Words(<<product.name, product.sector>>, FALSE, FALSE)

\* gensim's simple_preprocess(text, min_len=2)
simple_preprocess(text) == Words(text, TRUE, FALSE)

\* The analyzer of TfidfVectorizer(stop_words="english"): words of two or
\* more characters that are no stop words.
Analyze(text) == Words(text, TRUE, TRUE)

\* embeddings.py lines 83-128, GENSIM_AVAILABLE being True there: stop words
\* and short tokens are dropped.
preprocess_text(text) == Words(text, TRUE, TRUE)

\* embeddings.py lines 144-158: the text features, then key_value for every
\* categorical feature with a value ("sector_energy" is two tokens).
FullText(product) ==
    TextFeatures(product)
    \o (IF product.sector = NoText THEN <<>> ELSE <<"sector", product.sector>>)

\* The rows of a matrix of learned or weighted numbers, columns cells wide:
\* the cells of the row computed from product i are i, those of a zero
\* vector are 0.
RECURSIVE RowsFrom(_, _)
RowsFrom(sources, columns) ==
    IF sources = <<>> THEN <<>>
    ELSE <<[j \in 1..columns |-> Head(sources)]>> \o RowsFrom(Tail(sources), columns)

Min(a, b) == IF a < b THEN a ELSE b

\* [p["id"] for p in products]
RECURSIVE IdsFrom(_)
IdsFrom(products) ==
    IF products = <<>> THEN <<>> ELSE <<Head(products).id>> \o IdsFrom(Tail(products))

\* ---- TF-IDF ----
\* The documents of create_tfidf_embedding, one for every product, analyzed.
RECURSIVE TfidfDocuments(_)
TfidfDocuments(products) ==
    IF products = <<>> THEN <<>>
    ELSE <<Analyze(TextFeatures(Head(products)))>> \o TfidfDocuments(Tail(products))

\* The terms of a document: its words, and its pairs of adjacent words when
\* ngram_range is (1, 2).
TermsOf(doc, bigrams) ==
    {<<doc[i]>> : i \in 1..Len(doc)}
    \cup (IF bigrams THEN {<<doc[i], doc[i + 1]>> : i \in 1..(Len(doc) - 1)} ELSE {})

DocumentFrequency(term, documents, bigrams) ==
    Cardinality({i \in 1..Len(documents) : term \in TermsOf(documents[i], bigrams)})

\* TfidfVectorizer(max_features, stop_words="english", min_df=1,
\* max_df=0.95).fit_transform(documents), as scikit-learn does it: no term at
\* all, max_df * n_doc below min_df, and no term left after the pruning are
\* three ValueErrors.
FitTransform(documents, vocabulary, kept, sources, max_features) ==
    IF vocabulary = {}
    THEN Raise("ValueError",
               <<"empty vocabulary; perhaps the documents only contain stop words">>)
    ELSE IF 95 * Len(documents) < 100 * 1
    THEN Raise("ValueError", <<"max_df corresponds to < documents than min_df">>)
    ELSE IF kept = {}
    THEN Raise("ValueError",
               <<"After pruning, no terms remain. Try a lower min_df or a higher max_df.">>)
    ELSE Return([embeddings |-> RowsFrom(sources, Min(max_features, Cardinality(kept))),
                 vocabulary_size |-> Min(max_features, Cardinality(kept))])

\* The terms that max_df = 0.95 leaves.
KeptTerms(documents, bigrams) ==
    {t \in UNION {TermsOf(documents[i], bigrams) : i \in 1..Len(documents)} :
         100 * DocumentFrequency(t, documents, bigrams) <= 95 * Len(documents)}

\* The row of a document without a kept term is a zero vector.
TfidfSources(ids, documents, kept, bigrams) ==
    [i \in 1..Len(documents) |->
         IF TermsOf(documents[i], bigrams) \cap kept = {} THEN 0 ELSE ids[i]]

TfidfOf(ids, documents, bigrams, max_features) ==
    FitTransform(documents,
                 UNION {TermsOf(documents[i], bigrams) : i \in 1..Len(documents)},
                 KeptTerms(documents, bigrams),
                 TfidfSources(ids, documents, KeptTerms(documents, bigrams), bigrams),
                 max_features)

\* product_embedding_generator.py lines 85-125.
create_tfidf_embedding(products) ==
    TfidfOf(IdsFrom(products), TfidfDocuments(products), FALSE, 50)

\* ---- hash-based ----
\* str(value): a NULL column is None.
Str(value) == IF value = NoText THEN "None" ELSE value

\* The texts that are hashed, in the order of their characters.
SortedTexts == <<"None", "energy">>

\* The values hash(text) % 1000 may take in a process.  Python salts the
\* hash of a str with a value drawn when the interpreter starts, so the
\* table text -> bucket is one of the process.
HashBuckets == {7, 412}
HashTables == [{SortedTexts[i] : i \in 1..Len(SortedTexts)} -> HashBuckets]

\* products.py lines 285-292: type, sector, industry, asset_class, country
\* and currency, in the order of the dict.
CategoricalValues(product) ==
    <<NoText, product.sector, NoText, NoText, NoText, NoText>>

\* Lines 56-60: hash(str(cat_value)) % 1000 of every categorical value.
RECURSIVE CategoricalNums(_, _)
CategoricalNums(hash, values) ==
    IF values = <<>> THEN <<>>
    ELSE <<hash[Str(Head(values))]>> \o CategoricalNums(hash, Tail(values))

\* Lines 62-67: market_cap, beta, dividend_yield, is_etf and is_mutual_fund,
\* 0 for a NULL column.
NumericalNums(product) == <<0, 0, 0, 0, 0>>

RECURSIVE CustomRows(_, _)
CustomRows(hash, products) ==
    IF products = <<>> THEN <<>>
    ELSE <<CategoricalNums(hash, CategoricalValues(Head(products)))
           \o NumericalNums(Head(products))>>
         \o CustomRows(hash, Tail(products))


\* product_embedding_generator.py lines 28-82; hash is the table of the
\* process.
create_custom_financial_embedding(hash, products) ==
    IF products = <<>>
    THEN Raise("ValueError", <<"No products provided for embedding generation.">>)
    ELSE Return([embeddings |-> CustomRows(hash, products), vocabulary_size |-> 0])

\* ---- Word2Vec and GloVe ----
\* The token lists of the products that have a token (lines 148-154, 208-213).
RECURSIVE TokenDocuments(_)
TokenDocuments(products) ==
    IF products = <<>> THEN <<>>
    ELSE (IF simple_preprocess(TextFeatures(Head(products))) = <<>> THEN <<>>
          ELSE <<simple_preprocess(TextFeatures(Head(products)))>>)
         \o TokenDocuments(Tail(products))

\* The ids of the products that have a token, in the order of the products.
RECURSIVE TokenSources(_)
TokenSources(products) ==
    IF products = <<>> THEN <<>>
    ELSE (IF simple_preprocess(TextFeatures(Head(products))) = <<>> THEN <<>>
          ELSE <<Head(products).id>>)
         \o TokenSources(Tail(products))

AllWords(documents) == UNION {{documents[i][j] : j \in 1..Len(documents[i])} :
                                i \in 1..Len(documents)}

\* product_embedding_generator.py lines 128-186.
create_word2vec_embedding(gensim_available, products) ==
    IF ~gensim_available
    THEN Raise("ImportError", <<"gensim library is required for", "Word2Vec", "embeddings">>)
    ELSE IF TokenDocuments(products) = <<>>
    THEN Raise("ValueError",
               <<"No valid text documents found for", "Word2Vec", "training">>)
    ELSE Return([embeddings |-> RowsFrom(TokenSources(products), 50),
                 vocabulary_size |-> Cardinality(AllWords(TokenDocuments(products)))])

\* min(30, len(all_words) - 1) if len(all_words) > 1 else 1
GloveSize(all_words) ==
    IF Cardinality(all_words) > 1 THEN Min(30, Cardinality(all_words) - 1) ELSE 1

\* product_embedding_generator.py lines 189-251.
create_glove_embedding(gensim_available, products) ==
    IF ~gensim_available
    THEN Raise("ImportError", <<"gensim library is required for text preprocessing">>)
    ELSE IF TokenDocuments(products) = <<>>
    THEN Raise("ValueError",
               <<"No valid text documents found for", "GloVe", "processing">>)
    ELSE Return([embeddings |-> RowsFrom(TokenSources(products),
                                         GloveSize(AllWords(TokenDocuments(products)))),
                 vocabulary_size |-> Cardinality(AllWords(TokenDocuments(products)))])

\* The function of the method (lines 279-290) and its features_used.
CreateEmbedding(gensim_available, hash, products, method) ==
    CASE method = "custom_financial" -> create_custom_financial_embedding(hash, products)
      [] method = "tfidf_basic" -> create_tfidf_embedding(products)
      [] method = "word2vec" -> create_word2vec_embedding(gensim_available, products)
      [] method = "glove" -> create_glove_embedding(gensim_available, products)

FeaturesUsed(method) ==
    CASE method = "custom_financial" -> <<"categorical_financial", "numerical_financial">>
      [] method = "tfidf_basic" -> <<"text_features">>
      [] method = "word2vec" -> <<"text_features_word2vec">>
      [] method = "glove" -> <<"text_features_glove">>

\* (product_ids, embeddings, features_used, metadata), or what created raised.
Generated(products, method, created, features_used) ==
    IF created.kind = "raised" THEN created
    ELSE Return([product_ids |-> IdsFrom(products),
                 embeddings |-> created.value.embeddings,
                 method |-> method,
                 features_used |-> PyList(features_used),
                 metadata |-> PyDict(<< <<"method", method>>,
                                        <<"vocabulary_size", created.value.vocabulary_size>> >>)])

\* product_embedding_generator.py lines 254-294.
generate_embeddings(gensim_available, hash, products, method) ==
    IF method \notin SUPPORTED_METHODS
    THEN Raise("ValueError", <<"Unsupported method", method>>)
    ELSE IF products = <<>>
    THEN Raise("ValueError", <<"No products provided for embedding generation">>)
    ELSE Generated(products, method, CreateEmbedding(gensim_available, hash, products,
                                                            method),
                   FeaturesUsed(method))

\* A slip: the statement is a plain INSERT, and a row whose key is stored
\* is an IntegrityError.
StoreGeneratedOnce(table, products, generated, timestamp) ==
    IF generated.kind = "raised" THEN <<generated, table>>
    ELSE IF \E r \in table : /\ r.method = generated.value.method
                             /\ \E i \in 1..Len(generated.value.product_ids) :
                                    r.product_id = generated.value.product_ids[i]
    THEN <<Raise("IntegrityError", <<"UNIQUE constraint failed">>), table>>
    ELSE IF Len(generated.value.embeddings) < Len(generated.value.product_ids)
    THEN <<Raise("IndexError", <<"index out of bounds">>), table>>
    ELSE <<Return([method |-> generated.value.method,
                   product_count |-> Len(products),
                   embedding_dimension |-> Len(generated.value.embeddings[1])]),
           store_embeddings(table, generated.value, timestamp)>>

\* store_embeddings on what was generated: embeddings[i] of a matrix with
\* fewer rows than product_ids is an IndexError, and the batch is rolled back.
\* The pair of the outcome and the table.
StoreGenerated(table, products, generated, timestamp) ==
    IF generated.kind = "raised" THEN <<generated, table>>
    ELSE IF Len(generated.value.embeddings) < Len(generated.value.product_ids)
    THEN <<Raise("IndexError", <<"index out of bounds">>), table>>
    ELSE <<Return([method |-> generated.value.method,
                   product_count |-> Len(products),
                   embedding_dimension |-> Len(generated.value.embeddings[1])]),
           store_embeddings(table, generated.value, timestamp)>>

\* product_embedding_generator.py lines 297-337: products are the rows of
\* get_all_products_for_embeddings; the exception of the try block is raised
\* again.
generate_and_store_products_embeddings(gensim_available, hash, products, method, table, timestamp) ==
    IF products = <<>> THEN <<Return(PyDict(<<>>)), table>>
    ELSE StoreGenerated(table, products,
                        generate_embeddings(gensim_available, hash, products, method),
                        timestamp)

\* ---- embeddings.py ----
\* embeddings.py lines 131-162, for GENSIM_AVAILABLE True.
RECURSIVE prepare_documents_for_embedding(_)
prepare_documents_for_embedding(products) ==
    IF products = <<>> THEN <<>>
    ELSE (IF preprocess_text(FullText(Head(products))) = <<>> THEN <<>>
          ELSE <<preprocess_text(FullText(Head(products)))>>)
         \o prepare_documents_for_embedding(Tail(products))

\* The ids of the products that have a document, in the order of the
\* products.
RECURSIVE PreparedSources(_)
PreparedSources(products) ==
    IF products = <<>> THEN <<>>
    ELSE (IF preprocess_text(FullText(Head(products))) = <<>> THEN <<>>
          ELSE <<Head(products).id>>)
         \o PreparedSources(Tail(products))

\* LabelEncoder: the number of the values of the batch sorted before text.
LabelOf(text, products) ==
    Cardinality({i \in 1..Len(SortedTexts) :
                   /\ \E k \in 1..Len(products) : Str(products[k].sector) = SortedTexts[i]
                   /\ \E j \in 1..Len(SortedTexts) : SortedTexts[j] = text /\ i < j})

\* embeddings.py lines 257-329: the labels of asset_class, country, currency,
\* industry, market_cap_tier, risk_rating, sector and type, then the seven
\* scaled numbers, 0 for columns that are all NULL.
EmbeddingsCustomRows(products) ==
    [k \in 1..Len(products) |->
         <<0, 0, 0, 0, 0, 0, LabelOf(Str(products[k].sector), products), 0>>
         \o <<0, 0, 0, 0, 0, 0, 0>>]

\* embeddings.py lines 215-484: the four functions of that module; eight
\* categorical and seven numerical features, vectors of 100 cells, at most
\* 50 GloVe components.
EmbeddingsCreate(products, method) ==
    CASE method = "tfidf_basic" -> TfidfOf(IdsFrom(products), TfidfDocuments(products), TRUE, 100)
      [] method = "custom_financial" ->
            Return([embeddings |-> EmbeddingsCustomRows(products), vocabulary_size |-> 0])
      [] method \in {"word2vec", "glove"} ->
            IF prepare_documents_for_embedding(products) = <<>>
            THEN Raise("ValueError",
                       <<"No valid documents found for",
                         IF method = "word2vec" THEN "Word2Vec" ELSE "GloVe",
                         IF method = "word2vec" THEN "training" ELSE "embedding">>)
            ELSE Return(
                   [embeddings |->
                        RowsFrom(PreparedSources(products),
                               IF method = "word2vec" THEN 100
                               ELSE IF Cardinality(AllWords(
                                           prepare_documents_for_embedding(products))) > 1
                                    THEN Min(50, Cardinality(AllWords(
                                           prepare_documents_for_embedding(products))) - 1)
                                    ELSE 1),
                    vocabulary_size |->
                        Cardinality(AllWords(prepare_documents_for_embedding(products)))])

\* embeddings.py lines 487-562.
generate_embeddings_for_all_products(products, method, table, timestamp) ==
    IF method \notin SUPPORTED_METHODS
    THEN <<Raise("ValueError", <<"Method", method, "not supported">>), table>>
    ELSE IF products = <<>> THEN <<Return(PyDict(<<>>)), table>>
    ELSE StoreGenerated(table, products,
                        Generated(products, method, EmbeddingsCreate(products, method),
                                  <<"name", "sector", "industry", "asset_class", "country">>),
                        timestamp)

\* The dict of a status.
Status(status, detail) == Return([status |-> status, detail |-> detail])

\* embeddings.py lines 595-632; gensim_available is the flag of that module.
generate_embeddings_for_method(gensim_available, products, method, table, timestamp) ==
    IF method \in {"word2vec", "glove"} /\ ~gensim_available
    THEN <<Status("skipped", <<"gensim/nltk not available">>), table>>
    ELSE LET out == generate_embeddings_for_all_products(products, method, table, timestamp)
         IN  IF out[1].kind = "raised" THEN <<Status("error", out[1].message), out[2]>>
             ELSE IF out[1].value = PyDict(<<>>)
             THEN <<Status("failed", <<"No result returned">>), out[2]>>
             ELSE <<Status("success", <<>>), out[2]>>

(***************************************************************************)
(* The products table and the libraries installed.                         *)
(***************************************************************************)
ProductNames == {NoText, "a", "the", "fund"}
ProductSectors == {NoText, "energy"}

\* The lists of n products with the ids 1..n (ORDER BY id).
ProductsOfLength(n) ==
    { [i \in 1..n |-> [id |-> i, name |-> f[i][1], sector |-> f[i][2]]] :
          f \in [1..n -> ProductNames \X ProductSectors] }

ProductLists(longest) == UNION {ProductsOfLength(n) : n \in 0..longest}

Libraries == {"gensim", "nltk"}

NoEmbedCall == [fn |-> "none", method |-> "none"]
NoEmbedResult == [kind |-> "none"]
NoEmbedBefore == [call |-> NoEmbedCall, result |-> NoEmbedResult]

EmbedIdle ==
    /\ installed = {}
    /\ products_table = <<>>
    /\ embed_call = NoEmbedCall
    /\ embed_result = NoEmbedResult
    /\ hash_of = [t \in {SortedTexts[i] : i \in 1..Len(SortedTexts)} |-> 7]
    /\ embed_before = NoEmbedBefore
    /\ process_runs = 1

(***************************************************************************)
(* init_analysis.py: the initialization pipeline.                          *)
(***************************************************************************)
\* The value of an expression that was evaluated once.
The(values) == CHOOSE value \in values : TRUE

\* dict.get(key, default)
DictGet(dict, key, default) == IF key \in DOMAIN dict THEN dict[key] ELSE default

\* product_embeddings.py, list_available_methods: SELECT DISTINCT method.
list_available_methods(table) == {r.method : r \in table}

\* product_embeddings.py lines 309-356: one key for each method, holding its
\* rows, and the key "_overall".
get_all_statistics(table) ==
    [key \in list_available_methods(table) \cup {"_overall"} |->
         {r \in table : key = "_overall" \/ r.method = key}]

\* init_analysis.py lines 35-52.
check_product_embeddings_exist(table) ==
    Cardinality(DictGet(get_all_statistics(table), "methods", {})) > 0

\* The result of a generation step: what it returned and the table it left.
StepResult(returned, table) == [returned |-> returned, table |-> table]

\* init_analysis.py lines 76-107: the loop over the methods, then the return;
\* an exception of a method ends the loop in the except clause.
RECURSIVE ProductMethodsLoop(_, _, _, _, _, _, _)
RECURSIVE AfterProductMethod(_, _, _, _, _, _, _)
ProductMethodsLoop(gensim_available, hash, products, methods, table, timestamp, successful_methods) ==
    IF methods = <<>> THEN StepResult(successful_methods > 0, table)
    ELSE The({AfterProductMethod(gensim_available, hash, products, methods, timestamp,
                                 successful_methods, out) :
                  out \in {generate_and_store_products_embeddings(
                               gensim_available, hash, products, Head(methods), table,
                               timestamp)}})

AfterProductMethod(gensim_available, hash, products, methods, timestamp, successful_methods, out) ==
    IF out[1].kind = "raised" THEN StepResult(FALSE, out[2])
    ELSE ProductMethodsLoop(gensim_available, hash, products, Tail(methods), out[2],
                            timestamp,
                            IF out[1].value # PyDict(<<>>) /\ out[1].value.product_count > 0
                            THEN successful_methods + 1 ELSE successful_methods)

\* init_analysis.py lines 55-107.
generate_missing_product_embeddings(gensim_available, hash, products, table, timestamp) ==
    ProductMethodsLoop(gensim_available, hash, products,
                       <<"custom_financial", "tfidf_basic", "word2vec", "glove">>,
                       table, timestamp, 0)

\* portfolio_embeddings.py lines 205-221: SELECT DISTINCT method.
list_available_portfolio_methods(table) == {r.method : r \in table}

\* init_analysis.py lines 110-134.
check_portfolio_embeddings_exist(required_methods, table) ==
    SelectSeq(required_methods,
              LAMBDA method : method \notin list_available_portfolio_methods(table))

\* f"{embedding_method}_weighted"
Weighted(method) ==
    CASE method = "custom_financial" -> "custom_financial_weighted"
      [] method = "tfidf_basic" -> "tfidf_basic_weighted"
      [] method = "word2vec" -> "word2vec_weighted"
      [] method = "glove" -> "glove_weighted"
      [] OTHER -> "bert_weighted"

\* method.replace("_weighted", "")
BaseMethod(method) ==
    CASE method = "custom_financial_weighted" -> "custom_financial"
      [] method = "tfidf_basic_weighted" -> "tfidf_basic"
      [] method = "word2vec_weighted" -> "word2vec"
      [] method = "glove_weighted" -> "glove"
      [] method = "bert_weighted" -> "bert"
      [] OTHER -> method

\* get_embeddings(method) as create_portfolio_embedding reads it: the vector
\* of each product that has a row of the method.
ProductRowsOf(table, method) ==
    [p \in ProductIds |->
         IF \E r \in table : r.product_id = p /\ r.method = method
         THEN LET r == CHOOSE r \in table : r.product_id = p /\ r.method = method
              IN  [j \in 1..Len(r.embedding.v) |-> Fin(r.embedding.v[j], 1)]
         ELSE Missing]

\* analytics.py lines 21-53: the politicians that have an asset row, by id.
get_politicians_with_assets(assets) ==
    SelectSeq(<<"A000001", "B000002">>, LAMBDA p : assets[p] # <<>>)

\* portfolio_embeddings_generator.py lines 253-282: the politicians from the
\* i-th on; a politician without a vector is skipped.
RECURSIVE PoliticiansLoop(_, _, _, _, _, _, _)
RECURSIVE AfterPolitician(_, _, _, _, _, _, _, _)
PoliticiansLoop(politician_ids, embedding_method, rows, assets, table, timestamp, results) ==
    IF politician_ids = <<>> THEN <<Return(results), table>>
    ELSE The({AfterPolitician(politician_ids, embedding_method, rows, assets, table,
                              timestamp, results, created) :
                  created \in {create_portfolio_embedding(
                                   rows, assets[Head(politician_ids)]).result}})

AfterPolitician(politician_ids, embedding_method, rows, assets, table, timestamp, results, created) ==
    IF ~created.ok
    THEN PoliticiansLoop(Tail(politician_ids), embedding_method, rows, assets, table,
                         timestamp, [results EXCEPT !.skipped = @ + 1])
    ELSE PoliticiansLoop(
             Tail(politician_ids), embedding_method, rows, assets,
             store_portfolio_embedding(
                 table, Head(politician_ids), Weighted(embedding_method),
                 [embedding_vector |-> NdArray("float64", created.vector),
                  features_used |-> PyList(<<"product", embedding_method, "weighted">>),
                  asset_count |-> created.asset_count,
                  total_value |-> created.total_value,
                  metadata |-> PyDict(<< <<"method", Weighted(embedding_method)>>,
                                         <<"aggregation", "weighted_average">> >>)],
                 timestamp),
             timestamp, [results EXCEPT !.processed = @ + 1])

\* portfolio_embeddings_generator.py lines 212-282.
generate_portfolio_embeddings(embedding_method, product_table, assets, table, timestamp) ==
    IF embedding_method \notin SUPPORTED_METHODS
    THEN <<Raise("ValueError", <<"Unsupported method", embedding_method>>), table>>
    ELSE IF get_politicians_with_assets(assets) = <<>> THEN <<Return(PyDict(<<>>)), table>>
    ELSE The({PoliticiansLoop(get_politicians_with_assets(assets), embedding_method, rows,
                              assets, table, timestamp,
                              [method |-> Weighted(embedding_method), processed |-> 0,
                               skipped |-> 0, errors |-> 0]) :
                  rows \in {ProductRowsOf(product_table, embedding_method)}})

\* Lines 310-326: the loop over the methods; the exception of a method is
\* kept in its result, and results maps every method to its result.
RECURSIVE PortfolioMethodsLoop(_, _, _, _, _, _)
RECURSIVE AfterPortfolioMethod(_, _, _, _, _, _)
PortfolioMethodsLoop(methods, product_table, assets, table, timestamp, results) ==
    IF methods = <<>> THEN <<Return(results), table>>
    ELSE The({AfterPortfolioMethod(methods, product_table, assets, timestamp, results,
                                   out) :
                  out \in {generate_portfolio_embeddings(Head(methods), product_table,
                                                         assets, table, timestamp)}})

AfterPortfolioMethod(methods, product_table, assets, timestamp, results, out) ==
    PortfolioMethodsLoop(Tail(methods), product_table, assets, out[2], timestamp,
                         results \o << <<Head(methods), out[1]>> >>)

\* The keyword arguments a call passes are names of parameters.
Accepts(parameters, kwargs) == DOMAIN kwargs \subseteq parameters

\* portfolio_embeddings_generator.py lines 285-328: the parameters are
\* methods and config; any other keyword is a TypeError of the call.
generate_and_store_portfolio_embeddings(kwargs, product_table, assets, table, timestamp) ==
    IF ~Accepts({"methods", "config"}, kwargs)
    THEN <<Raise("TypeError", <<"got an unexpected keyword argument">>), table>>
    ELSE PortfolioMethodsLoop(
             IF "methods" \in DOMAIN kwargs /\ kwargs.methods # <<>> THEN kwargs.methods
             ELSE <<"custom_financial", "tfidf_basic", "word2vec", "glove">>,
             product_table, assets, table, timestamp, <<>>)

\* init_analysis.py lines 157-177: the loop over the missing methods; an
\* exception ends it in the except clause.
RECURSIVE MissingMethodsLoop(_, _, _, _, _)
RECURSIVE AfterMissingMethod(_, _, _, _, _)
MissingMethodsLoop(missing_methods, product_table, assets, table, timestamp) ==
    IF missing_methods = <<>> THEN StepResult(TRUE, table)
    ELSE The({AfterMissingMethod(missing_methods, product_table, assets, timestamp, out) :
                  out \in {generate_and_store_portfolio_embeddings(
                               [embedding_method |-> BaseMethod(Head(missing_methods)),
                                config |-> "config"],
                               product_table, assets, table, timestamp)}})

AfterMissingMethod(missing_methods, product_table, assets, timestamp, out) ==
    IF out[1].kind = "raised" THEN StepResult(FALSE, out[2])
    ELSE MissingMethodsLoop(Tail(missing_methods), product_table, assets, out[2],
                            timestamp)

\* init_analysis.py lines 137-177.
generate_missing_portfolio_embeddings(missing_methods, product_table, assets, table, timestamp) ==
    MissingMethodsLoop(missing_methods, product_table, assets, table, timestamp)

\* portfolio_metrics_generator.py lines 177-213: the number of rows of the
\* frame, one for each politician with assets (the join of the query finds
\* the row of the politician).
generate_portfolio_metrics(assets) == Len(get_politicians_with_assets(assets))

\* init_analysis.py lines 180-200.
check_portfolio_metrics_exist(assets) == generate_portfolio_metrics(assets) # 0

\* init_analysis.py lines 203-239.
generate_missing_portfolio_metrics(assets) == generate_portfolio_metrics(assets) # 0

\* A step of a run of the pipeline: the function called and whether it
\* returned True (for check_portfolio_embeddings_exist: no missing method).
PipelineStep(function, outcome) == [function |-> function, outcome |-> outcome]

\* What a run of the pipeline returned, the two tables it left and the steps
\* it made.
PipelineDone(returned, product_table, table, steps) ==
    [returned |-> returned, product_embeddings |-> product_table,
     portfolio_embeddings |-> table, steps |-> steps]

\* init_analysis.py lines 297-306: step 3, then the verification and the
\* return.
PipelineMetrics(assets, product_table, table, steps) ==
    IF check_portfolio_metrics_exist(assets)
    THEN PipelineDone(TRUE, product_table, table,
                      steps \o <<PipelineStep("check_portfolio_metrics_exist", TRUE)>>)
    ELSE PipelineDone(generate_missing_portfolio_metrics(assets), product_table, table,
                      steps \o <<PipelineStep("check_portfolio_metrics_exist", FALSE),
                                 PipelineStep("generate_missing_portfolio_metrics",
                                      generate_missing_portfolio_metrics(assets))>>)

\* A slip: the pipeline goes on after the portfolio embeddings failed.
AfterPortfolioStepLenient(assets, product_table, generated, steps) ==
    PipelineMetrics(assets, product_table, generated.table,
                    steps \o <<PipelineStep("generate_missing_portfolio_embeddings",
                                    generated.returned)>>)

\* Lines 288-292: the return after a failed generation of portfolio
\* embeddings.
AfterPortfolioStep(assets, product_table, generated, steps) ==
    IF ~generated.returned
    THEN PipelineDone(FALSE, product_table, generated.table,
                      steps \o <<PipelineStep("generate_missing_portfolio_embeddings", FALSE)>>)
    ELSE PipelineMetrics(assets, product_table, generated.table,
                         steps \o <<PipelineStep("generate_missing_portfolio_embeddings", TRUE)>>)

\* Lines 281-295: step 2.
PipelinePortfolio(required_methods, assets, product_table, table, timestamp, steps) ==
    IF check_portfolio_embeddings_exist(required_methods, table) # <<>>
    THEN The({AfterPortfolioStep(
                  assets, product_table, generated,
                  steps \o <<PipelineStep("check_portfolio_embeddings_exist", FALSE)>>) :
              generated \in {generate_missing_portfolio_embeddings(
                                 check_portfolio_embeddings_exist(required_methods, table),
                                 product_table, assets, table, timestamp)}})
    ELSE PipelineMetrics(assets, product_table, table,
                         steps \o <<PipelineStep("check_portfolio_embeddings_exist", TRUE)>>)

\* Lines 273-277: the return after a failed generation of product
\* embeddings.
AfterProductStep(required_methods, assets, generated, table, timestamp, steps) ==
    IF ~generated.returned
    THEN PipelineDone(FALSE, generated.table, table,
                      steps \o <<PipelineStep("generate_missing_product_embeddings", FALSE)>>)
    ELSE PipelinePortfolio(required_methods, assets, generated.table, table, timestamp,
                           steps \o <<PipelineStep("generate_missing_product_embeddings", TRUE)>>)

\* The default of required_methods (lines 261-267): None and [] are falsy.
RequiredOrDefault(required_methods) ==
    IF required_methods = <<>>
    THEN <<"custom_financial_weighted", "tfidf_basic_weighted", "word2vec_weighted",
           "glove_weighted">>
    ELSE required_methods

\* init_analysis.py lines 242-327.
initialize_complete_analysis_pipeline(required_methods, gensim_available, hash, products, assets, product_table, table, timestamp) ==
    IF ~check_product_embeddings_exist(product_table)
    THEN The({AfterProductStep(RequiredOrDefault(required_methods), assets, generated,
                               table, timestamp,
                               <<PipelineStep("check_product_embeddings_exist", FALSE)>>) :
                  generated \in {generate_missing_product_embeddings(
                                     gensim_available, hash, products, product_table,
                                     timestamp)}})
    ELSE PipelinePortfolio(RequiredOrDefault(required_methods), assets, product_table,
                           table, timestamp,
                           <<PipelineStep("check_product_embeddings_exist", TRUE)>>)

(***************************************************************************)
(* The databases the pipeline runs on.                                     *)
(***************************************************************************)
\* An empty products table; one product; two products with words; a first
\* product whose only word is too short to be a token.
PipelineProducts ==
    { <<>>,
      <<[id |-> 1, name |-> "fund", sector |-> NoText]>>,
      <<[id |-> 1, name |-> "fund", sector |-> "energy"],
        [id |-> 2, name |-> "fund", sector |-> NoText]>>,
      <<[id |-> 1, name |-> "a", sector |-> NoText],
        [id |-> 2, name |-> "fund", sector |-> "energy"]>> }

\* The asset rows of the two politicians: none, one or two of the first,
\* none or one of the second.
PipelineAssets ==
    { [p \in PoliticianIds |-> IF p = "A000001" THEN first ELSE second] :
          first \in { <<>>,
                      <<[product_id |-> 1, value |-> TextRange]>>,
                      <<[product_id |-> 1, value |-> TextRange],
                        [product_id |-> 2, value |-> TextDashes]>> },
          second \in { <<>>, <<[product_id |-> 1, value |-> TextRange]>> } }

\* The values of the argument required_methods (<<>> for None).
RequiredMethodLists == { <<>>, <<"custom_financial_weighted">> }

NoPipelineCall == [fn |-> "none", required_methods |-> <<>>]
NoPipelineBefore == [call |-> NoPipelineCall, result |-> "none", methods |-> {}]

PipelineIdle ==
    /\ assets_table = [p \in PoliticianIds |-> <<>>]
    /\ pipe_call = NoPipelineCall
    /\ pipe_result = "none"
    /\ pipe_steps = <<>>
    /\ pipe_before = NoPipelineBefore
    /\ pipe_calls = 0

(***************************************************************************)
(* The reports table and the reports folder:                               *)
(*   src/capitolwatch/services/reports.py                                  *)
(*   src/capitolwatch/datapipeline/scraping/downloader.py                  *)
(*   src/capitolwatch/scraping/downloader.py                               *)
(*   src/capitolwatch/datapipeline/database/import_reports.py              *)
(*                                                                         *)
(* A file name is [kind, n]: "id" is <n>.html, "temp" is temp_<uuid>.html  *)
(* with the n-th uuid drawn, "tuple" is "(<n>, 'auto_inserted').html".     *)
(* A Python value that may be an int or a tuple is [t, v].                 *)
(***************************************************************************)
PyInt(n) == [t |-> "int", v |-> <<n>>]
PyTuple(items) == [t |-> "tuple", v |-> items]
SqlText(text) == [t |-> "text", v |-> text]

MIN_FILE_SIZE_KB == 15

\* The pages of the model: two reports and an error page.
PageContents == {"report A", "report B", "error page"}

\* file.stat().st_size / 1024, rounded down
SizeKb(content) == IF content = "error page" THEN 2 ELSE 20

\* hashlib.sha1(html_content.encode("utf-8")).hexdigest(): one digest per content
Sha1(content) == <<"sha1", content>>

\* f"{report_id}.html"
FileName(report_id) ==
    IF report_id.t = "int" THEN [kind |-> "id", n |-> report_id.v[1]]
    ELSE [kind |-> "tuple", n |-> report_id.v[1]]

\* str(filename.relative_to(project_root)) for a file of the folder
RelativePath(name) == <<"data", name.kind, name.n>>

Unlink(folder, name) == {f \in folder : f.name # name}

WriteFile(folder, name, content) ==
    Unlink(folder, name) \cup {[name |-> name, content |-> content]}

\* Path.rename: the target is replaced when it exists
RenameFile(folder, old, new) ==
    LET file == CHOOSE f \in folder : f.name = old
    IN  WriteFile(Unlink(folder, old), new, file.content)

ReportRow(url, import_timestamp, checksum, source_file) ==
    [url |-> url, import_timestamp |-> import_timestamp, checksum |-> checksum,
     encoding |-> "utf-8", source_file |-> source_file]

\* add_report(report_id=None, ...): the branch that lets SQLite generate the
\* id; the row is committed and the pair (generated_id, "auto_inserted")
\* returned.
add_report(table, checksum, source_file, import_timestamp, url) ==
    [ret |-> PyTuple(<<Len(table) + 1, "auto_inserted">>),
     reports |-> Append(table, ReportRow(url, import_timestamp, checksum,
                                         SqlText(source_file)))]

\* update_report_source_file(report_id, source_file): sqlite3 binds an int
\* to the parameter of "WHERE id = ?" and raises on a tuple.
update_report_source_file(table, report_id, source_file) ==
    IF report_id.t # "int"
    THEN [ret |-> Raise("sqlite3.Error", "binding parameter 2"), reports |-> table]
    ELSE LET id == report_id.v[1]
         IN  IF id \in 1..Len(table)
             THEN [ret |-> Return(TRUE),
                   reports |-> [table EXCEPT ![id].source_file = SqlText(source_file)]]
             ELSE [ret |-> Return(FALSE), reports |-> table]

\* get_report_by_checksum(checksum): the first row with the checksum, or None
get_report_by_checksum(table, checksum) ==
    IF \E i \in 1..Len(table) : table[i].checksum = checksum
    THEN [t |-> "row",
          v |-> <<CHOOSE i \in 1..Len(table) :
                      /\ table[i].checksum = checksum
                      /\ \A j \in 1..(i - 1) : table[j].checksum # checksum>>]
    ELSE PyNone

Site == "https://efdsearch.senate.gov"

\* url if url.startswith("http") else "https://efdsearch.senate.gov" + url
FullUrl(url) == IF Head(url) = Site THEN url ELSE <<Site>> \o url

\* download_report of datapipeline/scraping/downloader.py
download_report(url, html_content, table, folder, timestamp) ==
    LET added == add_report(table, Sha1(html_content), <<>>, timestamp,
                            SqlText(FullUrl(url)))
        report_id == PyInt(added.ret.v[1])
        filename == FileName(report_id)
        updated == update_report_source_file(added.reports, report_id,
                                             RelativePath(filename))
    IN  [ret |-> IF updated.ret.kind = "raised" THEN updated.ret ELSE Return(PyNone),
         reports |-> updated.reports,
         folder |-> WriteFile(folder, filename, html_content)]

\* download_report of scraping/downloader.py: INSERT without source_file,
\* cur.lastrowid, the file, UPDATE, commit.
scraping_download_report(url, html_content, table, folder, timestamp) ==
    LET report_id == Len(table) + 1
        inserted == Append(table, ReportRow(SqlText(FullUrl(url)), timestamp,
                                            Sha1(html_content), SqlNull))
        filename == FileName(PyInt(report_id))
    IN  [ret |-> Return(PyNone),
         reports |-> [inserted EXCEPT
                          ![report_id].source_file = SqlText(RelativePath(filename))],
         folder |-> WriteFile(folder, filename, html_content)]

\* Phase 1 of import_reports: error pages are deleted, the other files get
\* a temporary name unless they have one.
RECURSIVE ImportPhase1(_, _, _, _)
ImportPhase1(files, folder, uuids, files_to_process) ==
    IF files = <<>>
    THEN [folder |-> folder, uuids |-> uuids, files_to_process |-> files_to_process]
    ELSE LET file == Head(files)
             checksum == Sha1(file.content)
             temp_file == [kind |-> "temp", n |-> uuids + 1]
         IN  IF SizeKb(file.content) < MIN_FILE_SIZE_KB
             THEN ImportPhase1(Tail(files), Unlink(folder, file.name), uuids,
                               files_to_process)
             ELSE IF file.name.kind = "temp"
             THEN ImportPhase1(Tail(files), folder, uuids,
                               Append(files_to_process,
                                      [file |-> file.name, original_name |-> file.name,
                                       checksum |-> checksum]))
             ELSE ImportPhase1(Tail(files), RenameFile(folder, file.name, temp_file),
                               uuids + 1,
                               Append(files_to_process,
                                      [file |-> temp_file, original_name |-> file.name,
                                       checksum |-> checksum]))

\* Phase 2 of import_reports: a file whose checksum is stored is deleted;
\* another one gets a row, the name made from report_id and its path as
\* source_file.  report_id is what add_report returned.
RECURSIVE ImportPhase2(_, _, _, _, _)
ImportPhase2(files_to_process, folder, table, timestamp, imported_count) ==
    IF files_to_process = <<>>
    THEN [ret |-> Return(PyInt(imported_count)), reports |-> table, folder |-> folder]
    ELSE LET file_data == Head(files_to_process)
             existing == get_report_by_checksum(table, file_data.checksum)
             added == add_report(table, file_data.checksum, <<>>, timestamp, SqlNull)
             report_id == added.ret
             new_filename == FileName(report_id)
             renamed == RenameFile(folder, file_data.file, new_filename)
             updated == update_report_source_file(added.reports, report_id,
                                                  RelativePath(new_filename))
         IN  IF existing # PyNone
             THEN ImportPhase2(Tail(files_to_process), Unlink(folder, file_data.file),
                               table, timestamp, imported_count)
             ELSE IF updated.ret.kind = "raised"
             THEN [ret |-> updated.ret, reports |-> updated.reports, folder |-> renamed]
             ELSE ImportPhase2(Tail(files_to_process), renamed, updated.reports,
                               timestamp, imported_count + 1)

\* import_reports(folder_path, project_root); files is what glob returned.
import_reports(files, table, folder, uuids, timestamp) ==
    IF files = <<>>
    THEN [ret |-> Return(PyNone), reports |-> table, folder |-> folder, uuids |-> uuids]
    ELSE LET read == ImportPhase1(files, folder, uuids, <<>>)
             done == ImportPhase2(read.files_to_process, read.folder, table, timestamp, 0)
         IN  [ret |-> done.ret, reports |-> done.reports, folder |-> done.folder,
              uuids |-> read.uuids]

\* The orders in which glob can return the files of a folder.
GlobOrders(folder) ==
    {files \in [1..Cardinality(folder) -> folder] :
         \A i, j \in 1..Cardinality(folder) : files[i] = files[j] => i = j}

\* The URLs handed to download_report: a relative and an absolute one.
ReportUrls == { <<"/search/view/1">>, <<Site, "/search/view/2">> }

NoReportCall == [fn |-> "none", files |-> <<>>]
NoReportResult == [kind |-> "none"]

(***************************************************************************)
(* The assets of a report:                                                 *)
(*   src/capitolwatch/datapipeline/database/extractor.py                   *)
(*   src/capitolwatch/datapipeline/database/parse_report_assets.py         *)
(*   src/capitolwatch/services/assets.py, products.py                      *)
(*                                                                         *)
(* A row of the "Part 3. Assets" table is [index, name], two texts.        *)
(***************************************************************************)
PyStr(text) == [t |-> "str", v |-> text]

\* s.split(".")
RECURSIVE SplitDots(_, _)
SplitDots(s, part) ==
    IF s = <<>> THEN <<part>>
    ELSE IF Head(s) = "." THEN <<part>> \o SplitDots(Tail(s), <<>>)
    ELSE SplitDots(Tail(s), Append(part, Head(s)))

\* One dictionary of extract_assets: the parent index is the text before
\* the first "." of the index, None for an index without ".".
ExtractedAsset(row) ==
    [index |-> row.index,
     parent_index |-> IF \E i \in 1..Len(row.index) : row.index[i] = "."
                      THEN PyStr(SplitDots(row.index, <<>>)[1])
                      ELSE PyNone,
     name |-> row.name,
     type |-> "Stock"]

RECURSIVE extract_assets(_)
extract_assets(rows) ==
    IF rows = <<>> THEN <<>>
    ELSE <<ExtractedAsset(Head(rows))>> \o extract_assets(Tail(rows))

\* float("inf") in a sort key
InfPart == -1

RECURSIVE IntParts(_)
IntParts(parts) ==
    IF parts = <<>> THEN <<>>
    ELSE (IF Strip(Head(parts)) # <<>> /\ AllDigits(Strip(Head(parts)))
          THEN <<DigitsVal(Strip(Head(parts)))>> ELSE <<>>)
         \o IntParts(Tail(parts))

\* A key that puts no asset before another.
sort_key_unordered(asset) == <<InfPart>>

\* sort_key(asset): the numbers of the index, or (inf,) when there is none
sort_key(asset) ==
    LET parts == IntParts(SplitDots(Strip(asset.index), <<>>))
    IN  IF parts = <<>> THEN <<InfPart>> ELSE parts

PartLess(a, b) == a # InfPart /\ (b = InfPart \/ a < b)

\* a < b for two tuples of Python
RECURSIVE TupleLess(_, _)
TupleLess(a, b) ==
    IF b = <<>> THEN FALSE
    ELSE IF a = <<>> THEN TRUE
    ELSE IF Head(a) = Head(b) THEN TupleLess(Tail(a), Tail(b))
    ELSE PartLess(Head(a), Head(b))

\* list.insert after the entries that are not greater: the sort is stable
RECURSIVE InsertSorted(_, _)
InsertSorted(asset, sorted_assets) ==
    IF sorted_assets = <<>> THEN <<asset>>
    ELSE IF TupleLess(sort_key(asset), sort_key(Head(sorted_assets)))
    THEN <<asset>> \o sorted_assets
    ELSE <<Head(sorted_assets)>> \o InsertSorted(asset, Tail(sorted_assets))

\* sorted(assets, key=sort_key)
RECURSIVE Sorted(_)
Sorted(assets) ==
    IF assets = <<>> THEN <<>>
    ELSE InsertSorted(assets[Len(assets)], Sorted(SubSeq(assets, 1, Len(assets) - 1)))

\* parse_report_id(filename): int(stem), None when the stem is no number
parse_report_id(filename) ==
    IF filename.kind = "id" THEN PyInt(filename.n) ELSE PyNone

\* get_politician_id(report_id): add_report and download_report leave the
\* column NULL, and a report without a row gives None as well.
get_politician_id(table, report_id) == PyNone

\* add_product({"name", "type"}): the id of the row with the name and the
\* type, inserted when there is none.
add_product(table, name, product_type) ==
    IF \E i \in 1..Len(table) : table[i].name = name /\ table[i].type = product_type
    THEN [ret |-> CHOOSE i \in 1..Len(table) :
                      /\ table[i].name = name /\ table[i].type = product_type
                      /\ \A j \in 1..(i - 1) :
                             ~(table[j].name = name /\ table[j].type = product_type),
          products |-> table]
    ELSE [ret |-> Len(table) + 1,
          products |-> Append(table, [name |-> name, type |-> product_type,
                                      data_source |-> "Manual"])]

\* add_asset(report_id, asset): cur.lastrowid of the inserted row
add_asset(table, report_id, asset_row) ==
    [ret |-> Len(table) + 1,
     assets |-> Append(table, [report_id |-> report_id] @@ asset_row)]

\* index_to_id.get(parent_idx) if parent_idx else None
ParentAssetId(index_to_id, parent_idx) ==
    IF parent_idx = PyNone \/ parent_idx.v = <<>> THEN PyNone
    ELSE IF parent_idx.v \in DOMAIN index_to_id THEN PyInt(index_to_id[parent_idx.v])
    ELSE PyNone

\* index_to_id[idx] = inserted_id, when idx is a text that is not empty
Remember(index_to_id, idx, inserted_id) ==
    IF idx = <<>> THEN index_to_id
    ELSE [k \in DOMAIN index_to_id \cup {idx} |->
              IF k = idx THEN inserted_id ELSE index_to_id[k]]

\* The loop of process_assets_parsing over assets_sorted.
RECURSIVE InsertAssets(_, _, _, _, _, _, _)
InsertAssets(assets_sorted, report_id, politician_id, products, table, index_to_id, log) ==
    IF assets_sorted = <<>>
    THEN [ret |-> PyStr(<<"inserted: ", Len(log)>>), products |-> products,
          assets |-> table, log |-> log]
    ELSE LET asset == Head(assets_sorted)
             name == Strip(asset.name)
             product == add_product(products, name, asset.type)
             parent_asset_id == ParentAssetId(index_to_id, asset.parent_index)
             added == add_asset(table, report_id,
                                [politician_id |-> politician_id,
                                 product_id |-> product.ret,
                                 parent_asset_id |-> parent_asset_id])
         IN  IF name = <<>>
             THEN InsertAssets(Tail(assets_sorted), report_id, politician_id, products,
                               table, index_to_id, log)
             ELSE InsertAssets(Tail(assets_sorted), report_id, politician_id,
                               product.products, added.assets,
                               Remember(index_to_id, asset.index, added.ret),
                               Append(log, [index |-> asset.index,
                                            parent_index |-> asset.parent_index,
                                            id |-> added.ret]))

\* process_assets_parsing(html_file_path); rows is the table of the file.
process_assets_parsing(html_file_path, rows, reports, products, table) ==
    LET report_id == parse_report_id(html_file_path)
        politician_id == get_politician_id(reports, report_id)
        extracted == extract_assets(rows)
    IN  IF report_id = PyNone
        THEN [ret |-> PyNone, products |-> products, assets |-> table, log |-> <<>>]
        ELSE IF extracted = <<>>
        THEN [ret |-> PyStr(<<"inserted: ", 0>>), products |-> products,
              assets |-> table, log |-> <<>>]
        ELSE InsertAssets(Sorted(extracted), report_id.v[1], politician_id, products,
                          table, << >>, <<>>)

\* The indices and the names of the rows of a report's table.
IndexTexts == { <<"1">>, <<"1", ".", "1">>, <<"2">>, <<"2", ".", "1">> }
AssetNames == { <<>>, <<"F">> }

\* The tables of a report: the site lists the parent of every child.
HtmlTables ==
    { rows \in UNION { [1..n -> [index : IndexTexts, name : AssetNames]] :
                           n \in 0..MaxAssets } :
          \A i \in 1..Len(rows) :
              ExtractedAsset(rows[i]).parent_index # PyNone =>
                  \E j \in 1..Len(rows) :
                      rows[j].index = ExtractedAsset(rows[i]).parent_index.v }

\* The files handed to process_assets_parsing.
HtmlFiles == { [kind |-> "id", n |-> 1], [kind |-> "tuple", n |-> 1] }

NoParsingCall == [fn |-> "none"]

ImportIdle ==
    /\ reports_db = <<>>
    /\ report_folder = {}
    /\ files_copied = 0
    /\ uuids_drawn = 0
    /\ report_call = NoReportCall
    /\ report_result = NoReportResult
    /\ reports_before = <<>>
    /\ folder_before = {}
    /\ report_calls = 0
    /\ products_db = <<>>
    /\ assets_db = <<>>
    /\ html_file = [kind |-> "id", n |-> 1]
    /\ html_table = <<>>
    /\ parsing_call = NoParsingCall
    /\ parsing_result = PyNone
    /\ parsing_log = <<>>
    /\ parsing_calls = 0
(***************************************************************************)
(* Specifications.  Each one drives one part of the program; the variables *)
(* of the other parts stay idle.                                           *)
(***************************************************************************)
NoValue == [k |-> "none", n |-> 0, d |-> 1]

ParseIdle == value_str = <<>> /\ parsed = NoValue /\ parse_pc = "idle"

\* ---- the value parser applied to every input text ----
InitParse ==
    /\ value_str \in InputTexts(MaxLen)
    /\ parsed = NoValue
    /\ parse_pc = "call"
    /\ AggIdle
    /\ StoreIdle
    /\ SomIdle
    /\ MetricsIdle
    /\ EmbedIdle
    /\ PipelineIdle
    /\ ImportIdle

ParseAssetValue ==
    /\ parse_pc = "call"
    /\ parsed' = parse_asset_value(value_str)
    /\ parse_pc' = "returned"
    /\ UNCHANGED <<value_str, aggVars, storeVars, somVars, metricsVars, embedVars, pipeVars, importVars>>

NextParse == ParseAssetValue

SpecParse == InitParse /\ [][NextParse]_vars

\* ---- one call of create_portfolio_embedding on every database ----
InitAgg ==
    /\ product_rows \in [ProductIds -> EmbeddingChoices]
    /\ raw_assets \in AssetLists
    /\ valid_assets = <<>>
    /\ embedding_vectors = <<>>
    /\ asset_weights = <<>>
    /\ entered_rows = <<>>
    /\ agg_result = IdleResult
    /\ agg_pc = "call"
    /\ ParseIdle
    /\ StoreIdle
    /\ SomIdle
    /\ MetricsIdle
    /\ EmbedIdle
    /\ PipelineIdle
    /\ ImportIdle

\* The call returns: its locals and its result become visible.
Returned(out) ==
    /\ valid_assets' = out.valid_assets
    /\ embedding_vectors' = out.embedding_vectors
    /\ asset_weights' = out.asset_weights
    /\ entered_rows' = out.entered_rows
    /\ agg_result' = out.result

CreatePortfolioEmbedding ==
    /\ agg_pc = "call"
    /\ Returned(create_portfolio_embedding(product_rows, raw_assets))
    /\ agg_pc' = "returned"
    /\ UNCHANGED <<product_rows, raw_assets, parseVars, storeVars, somVars, metricsVars, embedVars, pipeVars, importVars>>

NextAgg == CreatePortfolioEmbedding

SpecAgg == InitAgg /\ [][NextAgg]_vars


\* ---- store calls, in any order, while the clock runs ----
InitStore ==
    /\ StoreIdle
    /\ SomIdle
    /\ MetricsIdle
    /\ EmbedIdle
    /\ PipelineIdle
    /\ ImportIdle
    /\ ParseIdle
    /\ AggIdle

\* The history of a store call.
Called(fn, args) ==
    /\ store_count < MaxStores
    /\ store_count' = store_count + 1
    /\ store_call' = [fn |-> fn, args |-> args, at |-> now]
    /\ store_retry' = (store_call.fn = fn /\ store_call.args = args)
    /\ portfolio_before' = portfolio_embeddings
    /\ product_before' = product_embeddings

StorePortfolioEmbedding ==
    \E politician_id \in PoliticianIds, method \in PortfolioMethods, a \in PortfolioArgs :
        /\ Called("store_portfolio_embedding", <<politician_id, method, a>>)
        /\ portfolio_embeddings' =
               store_portfolio_embedding(portfolio_embeddings, politician_id, method, a, now)
        /\ store_ret' = NextRowid(portfolio_embeddings)        \* cursor.lastrowid
        /\ UNCHANGED <<product_embeddings, now, parseVars, aggVars, somVars, metricsVars, embedVars, pipeVars, importVars>>

StoreEmbeddings ==
    \E c \in ProductCalls :
        /\ Called("store_embeddings", <<c>>)
        /\ product_embeddings' = store_embeddings(product_embeddings, c, now)
        /\ store_ret' = PyNone
        /\ UNCHANGED <<portfolio_embeddings, now, parseVars, aggVars, somVars, metricsVars, embedVars, pipeVars, importVars>>

\* Time passes between two calls.
Tick ==
    /\ now < MaxClock
    /\ now' = now + 1
    /\ UNCHANGED <<portfolio_embeddings, product_embeddings, store_call, store_ret,
                   store_retry, portfolio_before, product_before, store_count,
                   parseVars, aggVars, somVars, metricsVars, embedVars, pipeVars, importVars>>

NextStore == StorePortfolioEmbedding \/ StoreEmbeddings \/ Tick

SpecStore == InitStore /\ [][NextStore]_vars

\* ---- portfolio embeddings stored and read back ----
GetPortfolioEmbedding ==
    \E politician_id \in PoliticianIds, method \in PortfolioMethods :
        /\ Called("get_portfolio_embedding", <<politician_id, method>>)
        /\ store_ret' = get_portfolio_embedding(portfolio_embeddings, politician_id, method)
        /\ UNCHANGED <<portfolio_embeddings, product_embeddings, now, parseVars, aggVars,
                       somVars, metricsVars, embedVars, pipeVars, importVars>>

NextRoundTrip == StorePortfolioEmbedding \/ GetPortfolioEmbedding

SpecRoundTrip == InitStore /\ [][NextRoundTrip]_vars

\* ---- method calls on one PortfolioSOMClustering object ----
\* The object as constructed, the model file as file.
Fresh(file, file_origin) ==
    /\ som_params \in {Constructed(shape) : shape \in GridShapes}
    /\ som = NoSom
    /\ scaler = NewScaler
    /\ politician_positions = <<>>
    /\ cluster_df = <<>>
    /\ model_file = file
    /\ som_origin = [object |-> NoOrigin, file |-> file_origin]
    /\ som_error = "none"
    /\ som_log = <<>>
    /\ assign_log = <<>>
    /\ som_call = NoSomCall
    /\ analysis_result = EmptyDict
    /\ som_ops = 0
    /\ ParseIdle
    /\ AggIdle
    /\ StoreIdle
    /\ MetricsIdle
    /\ EmbedIdle
    /\ PipelineIdle
    /\ ImportIdle

InitSom == Fresh(NoFile, NoOrigin)

SomCalled(fn, feature_matrix) ==
    /\ som_ops < MaxOps
    /\ som_ops' = som_ops + 1
    /\ som_call' = [fn |-> fn, feature_matrix |-> feature_matrix, som |-> som]
    /\ UNCHANGED <<parseVars, aggVars, storeVars, metricsVars, embedVars, pipeVars, importVars>>

\* The object after train_som ended as out.
Trained(out, feature_matrix, iterations) ==
    /\ scaler' = out.scaler
    /\ som' = out.som
    /\ som_error' = out.error
    /\ som_origin' = IF out.error # "none" THEN som_origin
                     ELSE [som_origin EXCEPT !.object = [feature_matrix |-> feature_matrix,
                                                         iterations |-> iterations]]
    /\ som_log' = IF out.error # "none" THEN som_log
                  ELSE Append(som_log, [feature_matrix |-> feature_matrix,
                                        iterations |-> iterations,
                                        som_params |-> som_params,
                                        weights |-> out.som.weights])

\* train_som on one of the matrices; a fit that fails leaves the scaler as
\* it was or as new.
TrainSomOn(matrices, iteration_counts) ==
    \E feature_matrix \in matrices, iterations \in iteration_counts :
      \E failed_scaler \in IF feature_matrix = <<>> THEN {scaler, NewScaler} ELSE {scaler} :
        /\ SomCalled("train_som", feature_matrix)
        /\ Trained(train_som(som, failed_scaler, som_params, feature_matrix, iterations),
                   feature_matrix, iterations)
        /\ UNCHANGED <<som_params, politician_positions, cluster_df, model_file, assign_log,
                       analysis_result>>

TrainSom == TrainSomOn(FeatureMatrices, 0..MaxIterations)

\* The object after assign_clusters computed rows.
Assigned(rows) ==
    /\ cluster_df' = rows
    /\ politician_positions' =
           [id \in (DOMAIN politician_positions) \cup {rows[i].politician_id : i \in 1..Len(rows)} |->
               IF \E i \in 1..Len(rows) : rows[i].politician_id = id
               THEN LET i == CHOOSE i \in 1..Len(rows) : rows[i].politician_id = id
                    IN  <<rows[i].cluster_x, rows[i].cluster_y>>
               ELSE politician_positions[id]]

\* The entry of assign_log for a call on the map self_som (made by the
\* training origin) and the scaler sc that ended with error and rows.
AssignLogged(self_som, sc, origin, feature_matrix, error, rows) ==
    assign_log' = Append(assign_log,
                         [feature_matrix |-> feature_matrix, som |-> self_som, scaler |-> sc,
                          origin |-> origin, error |-> error, rows |-> rows])

\* assign_clusters that returns.
AssignClustersOn(matrices) ==
    \E feature_matrix \in matrices :
        /\ SomCalled("assign_clusters", feature_matrix)
        /\ AssignError(som, scaler, feature_matrix) = "none"
        /\ Assigned(assign_clusters(som, scaler, som_params, feature_matrix,
                                    PoliticianDf(feature_matrix)))
        /\ AssignLogged(som, scaler, som_origin.object, feature_matrix, "none", cluster_df')
        /\ som_error' = "none"
        /\ UNCHANGED <<som_params, som, scaler, model_file, som_log, som_origin,
                       analysis_result>>

AssignClusters == AssignClustersOn(FeatureMatrices)

\* assign_clusters that raises: before any training, or on a matrix the
\* scaler rejects.  What the call hands back is logged.
AssignClustersRaisesOn(matrices) ==
    \E feature_matrix \in matrices :
        /\ SomCalled("assign_clusters", feature_matrix)
        /\ AssignError(som, scaler, feature_matrix) # "none"
        /\ AssignLogged(som, scaler, som_origin.object, feature_matrix,
                        AssignError(som, scaler, feature_matrix),
                        assign_clusters(som, scaler, som_params, feature_matrix,
                                        PoliticianDf(feature_matrix)))
        /\ som_error' = AssignError(som, scaler, feature_matrix)
        /\ UNCHANGED <<som_params, som, scaler, politician_positions, cluster_df, model_file,
                       som_log, som_origin, analysis_result>>

\* assign_clusters before any training: scaler.transform raises.
AssignClustersUnfitted == AssignClustersRaisesOn(FeatureMatrices)

SaveModel ==
    /\ SomCalled("save_model", <<>>)
    /\ model_file' = ModelData(som, scaler, som_params)
    /\ som_origin' = [som_origin EXCEPT !.file = som_origin.object]
    /\ som_error' = "none"
    /\ UNCHANGED <<som_params, som, scaler, politician_positions, cluster_df, som_log,
                   assign_log, analysis_result>>

LoadModel ==
    /\ SomCalled("load_model", <<>>)
    /\ model_file.saved
    /\ som' = model_file.som
    /\ scaler' = model_file.scaler
    /\ som_params' = model_file.som_params
    /\ som_origin' = [som_origin EXCEPT !.object = som_origin.file]
    /\ som_error' = "none"
    /\ UNCHANGED <<politician_positions, cluster_df, model_file, som_log, assign_log,
                   analysis_result>>

\* load_model when no file was saved: open() raises.
LoadModelNoFile ==
    /\ SomCalled("load_model", <<>>)
    /\ ~model_file.saved
    /\ som_error' = "FileNotFoundError"
    /\ UNCHANGED <<som_params, som, scaler, politician_positions, cluster_df, model_file,
                   som_log, assign_log, som_origin, analysis_result>>

NextSom ==
    \/ TrainSom
    \/ AssignClusters
    \/ AssignClustersUnfitted
    \/ SaveModel
    \/ LoadModel
    \/ LoadModelNoFile

SpecSOM == InitSom /\ [][NextSom]_vars

\* ---- the analysis run, and calls with any matrix ----
\* The model file is absent or was saved by an earlier run.
InitAnalysis == Fresh(NoFile, NoOrigin) \/ Fresh(EarlierFile, EarlierOrigin)

\* run_full_som_analysis on the object it constructs, when prepare_data
\* raises: the except clause (lines 486-488) returns {}.
RunFullSomAnalysisFailed ==
    \E metrics_df \in MetricsFrames :
        /\ som_ops = 0
        /\ prepare_data(metrics_df).error # "none"
        /\ SomCalled("run_full_som_analysis", prepare_data(metrics_df).feature_matrix)
        /\ som_error' = prepare_data(metrics_df).error
        /\ analysis_result' = EmptyDict
        /\ UNCHANGED <<som_params, som, scaler, politician_positions, cluster_df, model_file,
                       som_log, assign_log, som_origin>>

\* The steps 2 and 3 (lines 422-431) on the prepared data, then the return
\* of lines 478-484.  (MaxIterations bounds the iterations of the run.)
Analysed(prepared, out) ==
    /\ Trained(out, prepared.feature_matrix, MaxIterations)
    /\ Assigned(assign_clusters(out.som, out.scaler, som_params, prepared.feature_matrix,
                                prepared.politician_df))
    /\ AssignLogged(out.som, out.scaler, som_origin'.object, prepared.feature_matrix,
                    "none", cluster_df')
    /\ analysis_result' = Results(cluster_df')

RunFullSomAnalysis ==
    \E metrics_df \in MetricsFrames :
        /\ som_ops = 0
        /\ prepare_data(metrics_df).error = "none"
        /\ SomCalled("run_full_som_analysis", prepare_data(metrics_df).feature_matrix)
        /\ Analysed(prepare_data(metrics_df),
                    train_som(som, scaler, som_params, prepare_data(metrics_df).feature_matrix,
                              MaxIterations))
        /\ UNCHANGED <<som_params, model_file>>

TrainSomAnyMatrix == TrainSomOn(AnyMatrices, {MaxIterations})

AssignClustersAnyMatrix == AssignClustersOn(AnyMatrices)

AssignClustersRaises == AssignClustersRaisesOn(AnyMatrices)

NextAnalysis ==
    \/ RunFullSomAnalysis
    \/ RunFullSomAnalysisFailed
    \/ TrainSomAnyMatrix
    \/ AssignClustersAnyMatrix
    \/ AssignClustersRaises
    \/ SaveModel
    \/ LoadModel
    \/ LoadModelNoFile

SpecAnalysis == InitAnalysis /\ [][NextAnalysis]_vars

\* ---- one call of a function of the portfolio metrics ----
WeightLists ==
    { WeightsFrom(counts, SumInts(counts)) : counts \in CountLists(MaxSectors, 0, MaxCount) }

InitMetrics ==
    /\ \/ /\ metrics_fn \in {"calculate_herfindahl_index", "calculate_shannon_entropy"}
          /\ metrics_args \in {[NoArgs EXCEPT !.weights = w] : w \in WeightLists}
       \/ /\ metrics_fn \in {"classify_risk_profile", "generator.classify_risk_profile"}
          /\ metrics_args \in {[NoArgs EXCEPT !.herfindahl_index = h, !.num_sectors = n,
                                              !.concentration_ratio = c] :
                                  h \in Twentieths, n \in 0..(MaxSectors + 2),
                                  c \in Twentieths}
       \/ /\ metrics_fn = "calculate_politician_metrics"
          /\ metrics_args \in {[NoArgs EXCEPT !.politician_info = known,
                                              !.sector_distribution = counts] :
                                  known \in BOOLEAN,
                                  counts \in CountLists(MaxSectors, 1, MaxCount)}
    /\ metrics_result = NoMetricsResult
    /\ ParseIdle
    /\ AggIdle
    /\ StoreIdle
    /\ SomIdle
    /\ EmbedIdle
    /\ PipelineIdle
    /\ ImportIdle

\* The call of fn returns value.
MetricsReturned(fn, value) ==
    /\ metrics_fn = fn
    /\ metrics_result = NoMetricsResult
    /\ metrics_result' = [fn |-> fn, value |-> value]
    /\ UNCHANGED <<metrics_fn, metrics_args, parseVars, aggVars, storeVars, somVars, embedVars, pipeVars, importVars>>

CalculateHerfindahlIndex ==
    MetricsReturned("calculate_herfindahl_index",
                    calculate_herfindahl_index(metrics_args.weights))

CalculateShannonEntropy ==
    MetricsReturned("calculate_shannon_entropy",
                    calculate_shannon_entropy(metrics_args.weights))

ClassifyRiskProfile ==
    MetricsReturned("classify_risk_profile",
                    classify_risk_profile(metrics_args.herfindahl_index,
                                          metrics_args.num_sectors,
                                          metrics_args.concentration_ratio))

GeneratorClassifyRiskProfile ==
    MetricsReturned("generator.classify_risk_profile",
                    generator_classify_risk_profile(metrics_args.herfindahl_index,
                                                    metrics_args.num_sectors,
                                                    metrics_args.concentration_ratio))

CalculatePoliticianMetrics ==
    MetricsReturned("calculate_politician_metrics",
                    calculate_politician_metrics(metrics_args.politician_info,
                                                 metrics_args.sector_distribution))

NextMetrics ==
    \/ CalculateHerfindahlIndex
    \/ CalculateShannonEntropy
    \/ ClassifyRiskProfile
    \/ GeneratorClassifyRiskProfile
    \/ CalculatePoliticianMetrics

SpecMetrics == InitMetrics /\ [][NextMetrics]_vars

\* ---- one call of a function that generates product embeddings ----
EmbedMethods == SUPPORTED_METHODS \cup {"bert"}

\* GENSIM_AVAILABLE of product_embedding_generator.py (lines 18-23) and of
\* embeddings.py (lines 27-51, which imports nltk in the same try block).
GENSIM_AVAILABLE == "gensim" \in installed
EMBEDDINGS_GENSIM_AVAILABLE == {"gensim", "nltk"} \subseteq installed

InitEmbed ==
    /\ installed \in SUBSET Libraries
    /\ products_table \in ProductLists(MaxProducts)
    /\ embed_call = NoEmbedCall
    /\ embed_result = NoEmbedResult
    /\ hash_of \in HashTables
    /\ embed_before = NoEmbedBefore
    /\ process_runs = 1
    /\ ParseIdle
    /\ AggIdle
    /\ StoreIdle
    /\ SomIdle
    /\ MetricsIdle
    /\ PipelineIdle
    /\ ImportIdle

\* The call of fn with the method ends with result and leaves table in
\* product_embeddings.
EmbedReturned(fn, method, result, table) ==
    /\ embed_call = NoEmbedCall
    /\ embed_call' = [fn |-> fn, method |-> method]
    /\ embed_result' = result
    /\ product_embeddings' = table
    /\ UNCHANGED <<installed, products_table, hash_of, embed_before, process_runs,
                   portfolio_embeddings, now, store_call, store_ret, store_retry,
                   portfolio_before, product_before, store_count,
                   parseVars, aggVars, somVars, metricsVars, pipeVars, importVars>>

\* One of the four functions of a method, called on the rows of the table.
CreateEmbeddingCalled ==
    \E method \in SUPPORTED_METHODS :
        EmbedReturned("create_embedding", method,
                      CreateEmbedding(GENSIM_AVAILABLE, hash_of, products_table, method),
                      product_embeddings)

GenerateEmbeddings ==
    \E method \in EmbedMethods :
        EmbedReturned("generate_embeddings", method,
                      generate_embeddings(GENSIM_AVAILABLE, hash_of, products_table, method),
                      product_embeddings)

\* The outcome and the table of a call that stores.
Stored(fn, method, out) == EmbedReturned(fn, method, out[1], out[2])

GenerateAndStoreProductsEmbeddings ==
    \E method \in EmbedMethods :
        Stored("generate_and_store_products_embeddings", method,
               generate_and_store_products_embeddings(GENSIM_AVAILABLE, hash_of,
                                                      products_table, method,
                                                      product_embeddings, now))

GenerateEmbeddingsForMethod ==
    \E method \in EmbedMethods :
        Stored("generate_embeddings_for_method", method,
               generate_embeddings_for_method(EMBEDDINGS_GENSIM_AVAILABLE, products_table,
                                              method, product_embeddings, now))

NextEmbed ==
    \/ CreateEmbeddingCalled
    \/ GenerateEmbeddings
    \/ GenerateAndStoreProductsEmbeddings
    \/ GenerateEmbeddingsForMethod

SpecEmbed == InitEmbed /\ [][NextEmbed]_vars

\* ---- the hybrid embedding, generated in one process after another ----
\* The interpreter starts again: the rows of the database stay, the hash of
\* a text is drawn anew.
NewProcess ==
    /\ embed_call # NoEmbedCall
    /\ process_runs < MaxRuns
    /\ process_runs' = process_runs + 1
    /\ hash_of' \in HashTables
    /\ embed_before' = [call |-> embed_call, result |-> embed_result]
    /\ embed_call' = NoEmbedCall
    /\ embed_result' = NoEmbedResult
    /\ UNCHANGED <<installed, products_table, storeVars, parseVars, aggVars, somVars,
                   metricsVars, pipeVars, importVars>>

\* product_embedding_generator.py, create_custom_financial_embedding.
HybridGenerated ==
    EmbedReturned("create_embedding", "custom_financial",
                  create_custom_financial_embedding(hash_of, products_table),
                  product_embeddings)

\* embeddings.py, create_custom_financial_embedding.
EmbeddingsHybridGenerated ==
    EmbedReturned("embeddings_create_embedding", "custom_financial",
                  EmbeddingsCreate(products_table, "custom_financial"),
                  product_embeddings)

NextHybrid ==
    \/ HybridGenerated
    \/ EmbeddingsHybridGenerated
    \/ NewProcess

SpecHybrid == InitEmbed /\ [][NextHybrid]_vars

\* ---- the initialization pipeline and the generator of portfolio embeddings ----
\* The ids of the rows of a products table.
ProductIdsOf(products) == {products[i].id : i \in 1..Len(products)}

\* A database before its first embedding: products, and asset rows that
\* name them.
InitPipeline ==
    /\ installed \in {{}, Libraries}
    /\ products_table \in PipelineProducts
    /\ hash_of \in {hash \in HashTables : hash["None"] # hash["energy"]}
    /\ assets_table \in PipelineAssets
    /\ \A p \in PoliticianIds : \A i \in 1..Len(assets_table[p]) :
           assets_table[p][i].product_id \in ProductIdsOf(products_table)
    /\ embed_call = NoEmbedCall
    /\ embed_result = NoEmbedResult
    /\ embed_before = NoEmbedBefore
    /\ process_runs = 1
    /\ pipe_call = NoPipelineCall
    /\ pipe_result = "none"
    /\ pipe_steps = <<>>
    /\ pipe_before = NoPipelineBefore
    /\ pipe_calls = 0
    /\ ImportIdle
    /\ ParseIdle
    /\ AggIdle
    /\ StoreIdle
    /\ SomIdle
    /\ MetricsIdle

\* A call returns: the call before becomes history.
PipelineCalled(fn, required_methods, result, steps, product_table, table) ==
    /\ pipe_calls < MaxCalls
    /\ pipe_calls' = pipe_calls + 1
    /\ pipe_before' = [call |-> pipe_call, result |-> pipe_result,
                       methods |-> list_available_portfolio_methods(portfolio_embeddings)]
    /\ pipe_call' = [fn |-> fn, required_methods |-> required_methods]
    /\ pipe_result' = result
    /\ pipe_steps' = steps
    /\ product_before' = product_embeddings
    /\ product_embeddings' = product_table
    /\ portfolio_embeddings' = table
    /\ UNCHANGED <<assets_table, installed, products_table, embed_call, embed_result,
                   hash_of, embed_before, process_runs, now, store_call, store_ret,
                   store_retry, portfolio_before, store_count,
                   parseVars, aggVars, somVars, metricsVars, importVars>>

PipelineReturned(required_methods, done) ==
    PipelineCalled("initialize_complete_analysis_pipeline", required_methods,
                   done.returned, done.steps, done.product_embeddings,
                   done.portfolio_embeddings)

InitializeCompleteAnalysisPipeline ==
    \E required_methods \in RequiredMethodLists :
        \E done \in {initialize_complete_analysis_pipeline(
                          required_methods, GENSIM_AVAILABLE, hash_of, products_table,
                          assets_table, product_embeddings, portfolio_embeddings, now)} :
            PipelineReturned(required_methods, done)

ScriptReturned(out) ==
    PipelineCalled("generate_and_store_portfolio_embeddings", <<>>, out[1].kind, <<>>,
                   product_embeddings, out[2])

\* generate_and_store_portfolio_embeddings called with its defaults, as the
\* tests of the module call it.
GenerateAndStorePortfolioEmbeddings ==
    \E out \in {generate_and_store_portfolio_embeddings(
                     [config |-> "config"], product_embeddings, assets_table,
                     portfolio_embeddings, now)} :
        ScriptReturned(out)

\* store_portfolio_embedding called by a user of the service, with a vector
\* of its own.
PortfolioEmbeddingStored ==
    \E method \in {"custom_financial_weighted"} :
        \E a \in {[embedding_vector |-> NdArray("float64", <<Fin(1, 1), Fin(2, 1)>>),
                   features_used |-> PyList(<<"product", "custom_financial", "weighted">>),
                   asset_count |-> 2,
                   total_value |-> Fin(33000, 1),
                   metadata |-> PyDict(<< <<"aggregation", "weighted_average">> >>)]} :
            PipelineCalled("store_portfolio_embedding", <<method>>, TRUE, <<>>,
                           product_embeddings,
                           store_portfolio_embedding(portfolio_embeddings, "A000001",
                                                     method, a, now))

NextPipeline ==
    \/ InitializeCompleteAnalysisPipeline
    \/ GenerateAndStorePortfolioEmbeddings
    \/ PortfolioEmbeddingStored

SpecPipeline == InitPipeline /\ [][NextPipeline]_vars


(***************************************************************************)
(* Reports: files arrive in the folder, download_report and import_reports *)
(* store them.                                                             *)
(***************************************************************************)
InitReports ==
    /\ reports_db = <<>>
    /\ report_folder = {}
    /\ files_copied = 0
    /\ uuids_drawn = 0
    /\ report_call = NoReportCall
    /\ report_result = NoReportResult
    /\ reports_before = <<>>
    /\ folder_before = {}
    /\ report_calls = 0
    /\ products_db = <<>>
    /\ assets_db = <<>>
    /\ html_file = [kind |-> "id", n |-> 1]
    /\ html_table = <<>>
    /\ parsing_call = NoParsingCall
    /\ parsing_result = PyNone
    /\ parsing_log = <<>>
    /\ parsing_calls = 0
    /\ ParseIdle
    /\ AggIdle
    /\ StoreIdle
    /\ SomIdle
    /\ MetricsIdle
    /\ EmbedIdle
    /\ PipelineIdle

assetVars == <<products_db, assets_db, html_file, html_table, parsing_call,
               parsing_result, parsing_log, parsing_calls>>

\* A file downloaded elsewhere is copied into the folder.
FileCopied ==
    /\ files_copied < MaxFiles
    /\ files_copied' = files_copied + 1
    /\ \E n \in 1..MaxFiles, content \in PageContents :
           /\ \A f \in report_folder : f.name # [kind |-> "id", n |-> n]
           /\ report_folder' = WriteFile(report_folder, [kind |-> "id", n |-> n], content)
    /\ UNCHANGED <<reports_db, uuids_drawn, report_call, report_result, reports_before,
                   folder_before, report_calls, assetVars,
                   parseVars, aggVars, storeVars, somVars, metricsVars, embedVars, pipeVars>>

ReportCalled(call, done) ==
    /\ report_calls < MaxImports
    /\ report_calls' = report_calls + 1
    /\ report_call' = call
    /\ report_result' = done.ret
    /\ reports_before' = reports_db
    /\ folder_before' = report_folder
    /\ reports_db' = done.reports
    /\ report_folder' = done.folder
    /\ UNCHANGED <<files_copied, assetVars, parseVars, aggVars, storeVars, somVars,
                   metricsVars, embedVars, pipeVars>>

DownloadReport ==
    \E url \in ReportUrls, html_content \in PageContents :
        \E done \in {download_report(url, html_content, reports_db, report_folder, now),
                     scraping_download_report(url, html_content, reports_db,
                                              report_folder, now)} :
            /\ ReportCalled([fn |-> "download_report", files |-> <<>>], done)
            /\ UNCHANGED uuids_drawn

ImportReports ==
    \E files \in GlobOrders(report_folder) :
        \E done \in {import_reports(files, reports_db, report_folder, uuids_drawn, now)} :
            /\ ReportCalled([fn |-> "import_reports", files |-> files], done)
            /\ uuids_drawn' = done.uuids

NextReports == FileCopied \/ DownloadReport \/ ImportReports

SpecReports == InitReports /\ [][NextReports]_vars

(***************************************************************************)
(* Assets: process_assets_parsing inserts the assets of a report file.     *)
(***************************************************************************)
InitAssets ==
    /\ reports_db = <<>>
    /\ report_folder = {}
    /\ files_copied = 0
    /\ uuids_drawn = 0
    /\ report_call = NoReportCall
    /\ report_result = NoReportResult
    /\ reports_before = <<>>
    /\ folder_before = {}
    /\ report_calls = 0
    /\ products_db = <<>>
    /\ assets_db = <<>>
    /\ html_file \in HtmlFiles
    /\ html_table \in HtmlTables
    /\ parsing_call = NoParsingCall
    /\ parsing_result = PyNone
    /\ parsing_log = <<>>
    /\ parsing_calls = 0
    /\ ParseIdle
    /\ AggIdle
    /\ StoreIdle
    /\ SomIdle
    /\ MetricsIdle
    /\ EmbedIdle
    /\ PipelineIdle

ProcessAssetsParsing ==
    /\ parsing_calls < MaxParsings
    /\ \E done \in {process_assets_parsing(html_file, html_table, reports_db,
                                           products_db, assets_db)} :
           /\ parsing_result' = done.ret
           /\ products_db' = done.products
           /\ assets_db' = done.assets
           /\ parsing_log' = done.log
    /\ parsing_call' = [fn |-> "process_assets_parsing"]
    /\ parsing_calls' = parsing_calls + 1
    /\ UNCHANGED <<reports_db, report_folder, files_copied, uuids_drawn, report_call,
                   report_result, reports_before, folder_before, report_calls,
                   html_file, html_table,
                   parseVars, aggVars, storeVars, somVars, metricsVars, embedVars, pipeVars>>

NextAssets == ProcessAssetsParsing

SpecAssets == InitAssets /\ [][NextAssets]_vars
(***************************************************************************)
(* Claims about the value parser (checked under SpecParse).                *)
(***************************************************************************)

\* C3: for every input text the parser returns either a strictly positive
\* number or the "unresolved" sentinel; it never returns zero or another
\* non-positive number as a resolved value.
C3_PositiveOrUnresolved ==
    parse_pc = "returned" =>
        \/ parsed = Unresolved
        \/ (IsFin(parsed) /\ parsed.n > 0)

\* The decimal literals of a text as a reader takes them: a run of digits and
\* commas holding a digit, with the fraction that follows it.
RECURSIVE DigitRunLen(_)
DigitRunLen(s) == IF s # <<>> /\ IsDigit(Head(s)) THEN 1 + DigitRunLen(Tail(s)) ELSE 0

RECURSIVE Literals(_)
Literals(s) ==
    IF s = <<>> THEN <<>>
    ELSE IF IsNumCh(Head(s))
         THEN LET n == RunLen(s)
                  ip == Remove(",", SubSeq(s, 1, n))
                  rest == SubSeq(s, n + 1, Len(s))
                  m == IF rest # <<>> /\ Head(rest) = "." THEN DigitRunLen(Tail(rest)) ELSE 0
                  fp == SubSeq(rest, 2, m + 1)
                  used == IF m > 0 THEN n + 1 + m ELSE n
              IN  (IF ip = <<>> THEN <<>>
                   ELSE <<Fin(DigitsVal(ip) * Pow10(m) + DigitsVal(fp), Pow10(m))>>)
                  \o Literals(SubSeq(s, used + 1, Len(s)))
         ELSE Literals(Tail(s))

\* The five rules of C4, in order, the first matching rule deciding.
ClaimedValue(s) ==
    LET clean == Lower(Strip(s))
        nums == Literals(s)
        bare == PyFloat(Remove(",", clean))
    IN  IF Contains(PhraseNegligible, clean) THEN Fin(NEGLIGIBLE_VALUE, 1)
        ELSE IF Contains(PhraseOverMillion, clean) THEN Fin(OVER_MILLION_VALUE, 1)
        ELSE IF Contains(PhraseUnascertainable, clean) THEN Fin(UNASCERTAINABLE_VALUE, 1)
        ELSE IF Contains(RangeMark, clean) /\ Contains(Dollar, clean) /\ Len(nums) >= 2
             THEN Div(Add(nums[1], nums[2]), Fin(2, 1))
        ELSE IF Contains(Dollar, clean) /\ Len(nums) >= 1 THEN nums[1]
        ELSE IF bare # ValueError /\ IsFin(bare) THEN bare
        ELSE Unresolved

\* C4: the parser applies its rules in a fixed order, the first matching rule
\* alone deciding: a qualitative phrase gives its constant; else a two-bound
\* range with currency markers gives the midpoint of the two bounds; else a
\* single currency-prefixed number gives that number; else a bare numeric
\* text gives that number; every other input gives "unresolved".
C4_RulesInOrder ==
    parse_pc = "returned" => parsed = ClaimedValue(value_str)

(***************************************************************************)
(* Claims about create_portfolio_embedding (checked under SpecAgg).        *)
(***************************************************************************)
\* The call got as far as the loop over the assets (lines 147-163).
FilterReached ==
    agg_pc = "returned" /\ ~NoProductRows(product_rows) /\ raw_assets # <<>>

UnresolvedRow(i) == parse_asset_value(raw_assets[i].value) = Unresolved

Kept(i) == \E a \in 1..Len(valid_assets) : valid_assets[a].row = i

KeptAtDefault(i) ==
    \E a \in 1..Len(valid_assets) :
        valid_assets[a].row = i /\ valid_assets[a].value = Fin(DEFAULT_VALUE, 1)

\* The product names of two holdings differ and one contains the other.
NamesOverlap(p, q) ==
    /\ ProductName(p) # ProductName(q)
    /\ \/ Contains(ProductName(p), ProductName(q))
       \/ Contains(ProductName(q), ProductName(p))

\* Holding i is a container/parent: unresolved, and its product name overlaps
\* the product name of another holding of the same politician.
NameParent(i) ==
    /\ UnresolvedRow(i)
    /\ \E j \in 1..Len(raw_assets) :
           NamesOverlap(raw_assets[i].product_id, raw_assets[j].product_id)

\* C1: a holding whose value is unresolved and whose product name is a
\* substring (either direction) of another holding's product name is dropped
\* as a container/parent.
C1_ParentDropped ==
    FilterReached => \A i \in 1..Len(raw_assets) : NameParent(i) => ~Kept(i)

\* C1, the example: "Example Growth Fund" (unresolved) with "Example Growth
\* Fund - Class A" (resolved) has been aggregated and the first was kept.
C1_ExampleKept ==
    /\ agg_pc = "returned"
    /\ raw_assets = <<[product_id |-> 1, value |-> TextDashes],
                      [product_id |-> 2, value |-> TextRange]>>
    /\ KeptAtDefault(1)
    /\ Kept(2)

\* C2: a holding whose value is unresolved and that is not a container/parent
\* is never dropped for lack of a value: it is kept with the fixed default
\* estimate as its weight.
C2_DefaultedUnlessParent ==
    FilterReached =>
        \A i \in 1..Len(raw_assets) :
            (UnresolvedRow(i) /\ ~NameParent(i)) => KeptAtDefault(i)

\* C2, the failing case: an unresolved holding of "Example Growth Fund"
\* (product 1) next to a holding of "Acme Corp" (product 12) was dropped.
C2_UnrelatedDropped ==
    /\ FilterReached
    /\ Len(raw_assets) = 2
    /\ raw_assets[1] = [product_id |-> 1, value |-> TextDashes]
    /\ raw_assets[2].product_id = 12
    /\ ~Kept(1)

\* C5: whenever a portfolio vector is produced, the normalized weights are
\* non-negative and sum to 1, and every coordinate of the vector lies between
\* the minimum and the maximum of that coordinate over the embeddings that
\* entered the average.
C5_ConvexHull ==
    (agg_pc = "returned" /\ agg_result.ok) =>
        /\ \A i \in 1..Len(asset_weights) :
               /\ IsFin(NormalizedWeights(asset_weights)[i])
               /\ NormalizedWeights(asset_weights)[i].n >= 0
        /\ SumSeq(NormalizedWeights(asset_weights)) = Fin(1, 1)
        /\ \A j \in 1..Len(agg_result.vector) :
               /\ IsFin(agg_result.vector[j])
               /\ \E lo \in 1..Len(embedding_vectors) :
                      Leq(embedding_vectors[lo][j], agg_result.vector[j])
               /\ \E hi \in 1..Len(embedding_vectors) :
                      Leq(agg_result.vector[j], embedding_vectors[hi][j])

\* C5, the failing case: a single holding whose value text is "inf" gave a
\* zero vector although its product embedding is (-1, 3).
C5_InfiniteWeight ==
    /\ agg_pc = "returned"
    /\ agg_result.ok
    /\ asset_weights = <<PosInf>>
    /\ embedding_vectors = <<(<<Fin(-1, 1), Fin(3, 1)>>)>>
    /\ agg_result.vector = <<Fin(0, 1), Fin(0, 1)>>

FailureReasons ==
    {ERR_NO_PRODUCT_EMBEDDINGS, ERR_NO_ASSETS, ERR_NO_VALID_ASSETS, ERR_NO_VALID_EMBEDDINGS}

\* C6 (amended): a call that produces no vector returns exactly one of four
\* reasons, each with its own cause, tested in this order: the method has no
\* product embeddings; the politician has no holdings; no holding has a
\* positive value after parsing and defaulting; no valued holding has a
\* non-zero product embedding.
C6_FourReasons ==
    (agg_pc = "returned" /\ ~agg_result.ok) =>
        /\ agg_result.vector = NoVector
        /\ agg_result.error \in FailureReasons
        /\ agg_result.error = ERR_NO_PRODUCT_EMBEDDINGS <=> NoProductRows(product_rows)
        /\ agg_result.error = ERR_NO_ASSETS <=>
               (~NoProductRows(product_rows) /\ raw_assets = <<>>)
        /\ agg_result.error = ERR_NO_VALID_ASSETS <=>
               (FilterReached /\ valid_assets = <<>>)
        /\ agg_result.error = ERR_NO_VALID_EMBEDDINGS <=>
               (FilterReached /\ valid_assets # <<>> /\ embedding_vectors = <<>>)

\* C6, the case: holdings with values, none of them with a usable embedding.
C6_NoEmbeddingFailure ==
    /\ agg_pc = "returned"
    /\ agg_result.error = ERR_NO_VALID_EMBEDDINGS
    /\ Len(valid_assets) = 2

\* C6 as stated: a failure is one of three reasons (no holdings, no
\* resolvable values, no holdings with embeddings).
C6_ThreeReasons ==
    (agg_pc = "returned" /\ ~agg_result.ok) =>
        agg_result.error \in {ERR_NO_ASSETS, ERR_NO_VALID_ASSETS, ERR_NO_VALID_EMBEDDINGS}

\* The valid assets whose product has a usable embedding, as raw_assets indexes.
RECURSIVE SignalRows(_)
SignalRows(valid) ==
    IF valid = <<>> THEN <<>>
    ELSE (IF HasSignal(product_rows, Head(valid).product_id) THEN <<Head(valid).row>> ELSE <<>>)
         \o SignalRows(Tail(valid))

\* C7: holdings whose product embedding is missing or all-zero are skipped
\* without failing the call: a vector is produced as soon as one valued
\* holding has a usable embedding, exactly those holdings enter the average,
\* asset_count is their number and total_value the sum of their values.
C7_SkippedAndCounted ==
    agg_pc = "returned" =>
        /\ entered_rows = SignalRows(valid_assets)
        /\ agg_result.ok <=> entered_rows # <<>>
        /\ agg_result.ok =>
              /\ agg_result.asset_count = Len(embedding_vectors)
              /\ Len(asset_weights) = Len(embedding_vectors)
              /\ \A e \in 1..Len(entered_rows) :
                     \E a \in 1..Len(valid_assets) :
                         /\ valid_assets[a].row = entered_rows[e]
                         /\ valid_assets[a].value = asset_weights[e]
              /\ agg_result.total_value = SumSeq(asset_weights)

\* C7, the case: two valued holdings, one skipped for a missing or all-zero
\* embedding, the other averaged.
C7_OneSkipped ==
    /\ agg_pc = "returned"
    /\ agg_result.ok
    /\ Len(valid_assets) = 2
    /\ Len(embedding_vectors) = 1
    /\ agg_result.asset_count = 1

(***************************************************************************)
(* Claims about the store (checked under SpecStore).                       *)
(***************************************************************************)
KeyUnique(table, pk) ==
    \A r1 \in table : \A r2 \in table : SameKey(r1, r2, pk) => r1 = r2

OtherKeys(table, keyrow, pk) == {r \in table : ~SameKey(r, keyrow, pk)}

\* The last call was store_portfolio_embedding(politician_id, method, a):
\* one row holds the key, every column of it comes from this call, and the
\* rows of the other keys and the other table are as before.
PortfolioCallStored(politician_id, method, a) ==
    /\ \E r \in portfolio_embeddings :
           /\ r.politician_id = politician_id
           /\ r.method = method
           /\ r.embedding.v = a.embedding_vector.v
           /\ r.vector_dimension = Len(a.embedding_vector.v)
           /\ r.features_used = JsonOrNull(a.features_used)
           /\ r.asset_count = a.asset_count
           /\ r.total_value = a.total_value
           /\ r.metadata = JsonOrNull(a.metadata)
           /\ r.created_at = store_call.at
           /\ r.rowid = store_ret
           /\ OtherKeys(portfolio_embeddings, r, PORTFOLIO_KEY)
                  = OtherKeys(portfolio_before, r, PORTFOLIO_KEY)
    /\ product_embeddings = product_before

\* The last index of the batch that names the product of index i.
LastOf(c, i) ==
    CHOOSE j \in i..Len(c.product_ids) :
        /\ c.product_ids[j] = c.product_ids[i]
        /\ \A k \in (j + 1)..Len(c.product_ids) : c.product_ids[k] # c.product_ids[i]

\* The last call was store_embeddings(c): each product of the batch has one
\* row, every column of it from the last tuple of the batch that names the
\* product, and the rows of the other keys and the other table are as before.
ProductCallStored(c) ==
    /\ \A i \in 1..Len(c.product_ids) :
           \E r \in product_embeddings :
               /\ r.product_id = c.product_ids[i]
               /\ r.method = c.method
               /\ r.embedding.v = c.embeddings[LastOf(c, i)]
               /\ r.vector_dimension = Len(c.embeddings[1])
               /\ r.features_used.v = c.features_used
               /\ r.metadata.v = c.metadata
               /\ r.updated_at = store_call.at
    /\ \A r \in product_embeddings :
           (r.method # c.method \/ \A i \in 1..Len(c.product_ids) : r.product_id # c.product_ids[i])
               => r \in product_before
    /\ \A r \in product_before :
           (r.method # c.method \/ \A i \in 1..Len(c.product_ids) : r.product_id # c.product_ids[i])
               => r \in product_embeddings
    /\ portfolio_embeddings = portfolio_before

\* A table without the columns a store stamps: the time, and the rowid.
PortfolioContent(table) ==
    { [c \in (DOMAIN r) \ {"created_at", "rowid"} |-> r[c]] : r \in table }

ProductContent(table) ==
    { [c \in (DOMAIN r) \ {"updated_at"} |-> r[c]] : r \in table }

\* C8 (amended): the store holds at most one row for each (entity id, method);
\* a store replaces the whole row of its key with the values of the call and
\* leaves the rows of every other key unchanged; repeating the same store
\* leaves the same state as doing it once, except for the timestamp of the
\* row (created_at, updated_at) and the row id that the portfolio store
\* returns, which are those of the repeated call.
C8_ReplaceByKey ==
    /\ KeyUnique(portfolio_embeddings, PORTFOLIO_KEY)
    /\ KeyUnique(product_embeddings, PRODUCT_KEY)
    /\ store_call.fn = "store_portfolio_embedding" =>
           PortfolioCallStored(store_call.args[1], store_call.args[2], store_call.args[3])
    /\ store_call.fn = "store_embeddings" => ProductCallStored(store_call.args[1])
    /\ store_retry =>
           /\ PortfolioContent(portfolio_embeddings) = PortfolioContent(portfolio_before)
           /\ ProductContent(product_embeddings) = ProductContent(product_before)

\* C8, the case: a key stored, another key stored, then the second store
\* repeated at a later time.
C8_Retried ==
    /\ store_retry
    /\ store_call.fn = "store_portfolio_embedding"
    /\ Cardinality(portfolio_embeddings) = 2
    /\ store_call.at > 0

\* C8 as stated: repeating the same store leaves the same state as doing it
\* once.
C8_RetrySameState ==
    store_retry =>
        /\ portfolio_embeddings = portfolio_before
        /\ product_embeddings = product_before

(***************************************************************************)
(* Claims about the SOM object (checked under SpecSOM).                    *)
(***************************************************************************)
GridCoordinates == (0..(som_params.som_x - 1)) \X (0..(som_params.som_y - 1))

ClusterIds == 0..(som_params.som_x * som_params.som_y - 1)

\* C9: on a W x H grid the cluster id x * H + y of the coordinates (x, y),
\* 0 <= x < W and 0 <= y < H, is injective and takes exactly the integers of
\* [0, W * H); two politicians of an assignment have the same cluster_id if
\* and only if they have the same coordinates.
C9_ClusterIdInjective ==
    /\ \A n \in GridCoordinates : \A m \in GridCoordinates :
           ClusterId(n, som_params.som_y) = ClusterId(m, som_params.som_y) => n = m
    /\ {ClusterId(n, som_params.som_y) : n \in GridCoordinates} = ClusterIds
    /\ \A e \in 1..Len(assign_log) : \A i \in 1..Len(assign_log[e].rows) :
           LET rows == assign_log[e].rows
           IN  /\ rows[i].cluster_x \in 0..(assign_log[e].som.x - 1)
               /\ rows[i].cluster_y \in 0..(assign_log[e].som.y - 1)
               /\ rows[i].cluster_id \in 0..(assign_log[e].som.x * assign_log[e].som.y - 1)
               /\ \A j \in 1..Len(rows) :
                      rows[i].cluster_id = rows[j].cluster_id
                          <=> /\ rows[i].cluster_x = rows[j].cluster_x
                              /\ rows[i].cluster_y = rows[j].cluster_y

\* C9, the case: three politicians assigned to three neurons of a grid that
\* is not square, one of them off both axes.
C9_ThreeClusters ==
    /\ som_params.som_x # som_params.som_y
    /\ Len(cluster_df) = 3
    /\ Cardinality({cluster_df[i].cluster_id : i \in 1..Len(cluster_df)}) = 3
    /\ \E i \in 1..Len(cluster_df) : cluster_df[i].cluster_x > 0 /\ cluster_df[i].cluster_y > 0

\* C10: two calls of train_som on a map of the same shape and rates, with
\* the same samples in the same order and the same iteration count (the seed
\* is fixed), end with the same grid, whatever was trained, assigned, saved
\* or loaded before each of them.
C10_SameInputsSameGrid ==
    \A i \in 1..Len(som_log) : \A j \in 1..Len(som_log) :
        (/\ som_log[i].feature_matrix = som_log[j].feature_matrix
         /\ som_log[i].iterations = som_log[j].iterations
         /\ som_log[i].som_params = som_log[j].som_params)
            => som_log[i].weights = som_log[j].weights

\* C10, the case: a training, a different training that ends with another
\* grid, then the first training again.
C10_TrainedAgain ==
    /\ Len(som_log) = 3
    /\ som_log[1].iterations > 0
    /\ som_log[3].feature_matrix = som_log[1].feature_matrix
    /\ som_log[3].iterations = som_log[1].iterations
    /\ som_log[3].som_params = som_log[1].som_params
    /\ som_log[2].weights # som_log[1].weights
    /\ som.weights = som_log[3].weights


\* The coordinates the entry e of assign_log gives the vector v, as a set.
CoordinatesOf(e, v) ==
    { <<e.rows[i].cluster_x, e.rows[i].cluster_y>> :
        i \in {k \in 1..Len(e.rows) : e.feature_matrix[k] = v} }

\* C11: on one trained grid (the same map and scaler), a vector queried
\* twice, in one assignment or in two with any calls in between, gets the
\* same coordinates; and an assignment leaves the grid as it found it.
C11_WinnerIdempotent ==
    /\ som_call.fn = "assign_clusters" => som = som_call.som
    /\ \A i \in 1..Len(assign_log) : \A j \in 1..Len(assign_log) :
           (/\ assign_log[i].error = "none"
            /\ assign_log[j].error = "none"
            /\ assign_log[i].som = assign_log[j].som
            /\ assign_log[i].scaler = assign_log[j].scaler)
               => \A a \in 1..Len(assign_log[i].feature_matrix) :
                      Cardinality(CoordinatesOf(assign_log[i], assign_log[i].feature_matrix[a])
                                  \cup CoordinatesOf(assign_log[j],
                                                     assign_log[i].feature_matrix[a])) = 1

\* C11, the case: three assignments on one grid, the first and the third
\* placing a vector that the first did not place first, another query in
\* between.
C11_QueriedTwice ==
    /\ Len(assign_log) = 3
    /\ \A i \in 1..3 : assign_log[i].error = "none" /\ assign_log[i].som = assign_log[1].som
    /\ assign_log[2].feature_matrix # assign_log[1].feature_matrix
    /\ assign_log[3].feature_matrix # assign_log[2].feature_matrix
    /\ \E a \in 2..Len(assign_log[1].feature_matrix) :
           CoordinatesOf(assign_log[3], assign_log[1].feature_matrix[a]) # {}

\* C12: an assignment asked of an object whose map was never trained or
\* loaded raises (NotFittedError from the scaler) and hands nothing back:
\* no row, no coordinate, no cluster id.
C12_UntrainedQueryRaises ==
    /\ \A i \in 1..Len(assign_log) :
           assign_log[i].som = NoSom
               => assign_log[i].error # "none" /\ assign_log[i].rows = <<>>
    /\ (som_call.fn = "assign_clusters" /\ som_call.som = NoSom) => som_error # "none"

\* C12, the case: an assignment of two or more politicians asked of an
\* object as constructed.
C12_QueriedUntrained ==
    /\ som_call.fn = "assign_clusters"
    /\ som_call.som = NoSom
    /\ Len(som_call.feature_matrix) >= 2
    /\ som_error = "NotFittedError"

\* C13: train_som on no samples raises ValueError and leaves self.som as it
\* was (no map where there was none); run_full_som_analysis, when
\* prepare_data finds nobody to cluster, reports the failure by returning
\* the empty dict, with no map trained and no politician clustered.
C13_NoSamplesFails ==
    /\ (som_call.fn = "train_som" /\ som_call.feature_matrix = <<>>)
           => /\ som_error = "ValueError"
              /\ som = som_call.som
              /\ \A i \in 1..Len(som_log) : som_log[i].feature_matrix # <<>>
    /\ (som_call.fn = "run_full_som_analysis" /\ som_call.feature_matrix = <<>>)
           => /\ som_error \in {"ValueError", "KeyError"}
              /\ analysis_result = EmptyDict
              /\ som = NoSom
              /\ assign_log = <<>>
    /\ \A i \in 1..Len(assign_log) :
           assign_log[i].error = "none" => assign_log[i].origin.feature_matrix # <<>>

\* C13, the case: train_som on no samples, called on an object as
\* constructed.
C13_TrainedOnNothing ==
    /\ som_call.fn = "train_som"
    /\ som_call.feature_matrix = <<>>
    /\ som_call.som = NoSom
    /\ som_ops = 1

\* The politician_id column of the rows of an entry of assign_log.
IdsOf(rows) == [i \in 1..Len(rows) |-> rows[i].politician_id]

\* C14: every assignment that returns used the mean and scale fitted on the
\* matrix of the training that made the map it queried (a training of this
\* object, or the one behind the loaded file), its rows are those of the
\* query matrix scaled with them, and the query vectors are as long as the
\* training vectors.
C14_TrainingScalerUsed ==
    \A i \in 1..Len(assign_log) :
        assign_log[i].error = "none"
            => /\ assign_log[i].origin # NoOrigin
               /\ assign_log[i].scaler = ScalerFit(assign_log[i].origin.feature_matrix)
               /\ Len(assign_log[i].feature_matrix[1])
                      = Len(assign_log[i].origin.feature_matrix[1])
               /\ assign_log[i].rows =
                      AssignmentRows(assign_log[i].som,
                                     ScalerTransform(
                                         ScalerFit(assign_log[i].origin.feature_matrix),
                                         assign_log[i].feature_matrix),
                                     IdsOf(assign_log[i].rows), assign_log[i].som.y, 1)

\* C14, the case: the object trains on one matrix, loads the model an
\* earlier run saved, and assigns the politicians of a matrix that is
\* neither the one it trained on nor the one behind the file.
C14_AssignedAfterLoad ==
    /\ Len(som_log) = 1
    /\ Len(assign_log) = 1
    /\ som_call.fn = "assign_clusters"
    /\ som_error = "none"
    /\ assign_log[1].origin = EarlierOrigin
    /\ assign_log[1].feature_matrix # EarlierOrigin.feature_matrix
    /\ assign_log[1].feature_matrix # som_log[1].feature_matrix
(***************************************************************************)
(* Claims about the portfolio metrics (checked under SpecMetrics).         *)
(***************************************************************************)
ReturnedFrom(fn) == metrics_result # NoMetricsResult /\ metrics_result.fn = fn

\* C15: for non-negative weights that sum to 1 the Herfindahl index is in
\* [0, 1] and is 1 exactly when one weight is 1; for n equal weights it is
\* 1/n (1/4 for four weights of 1/4); for no weights or weights that are all
\* zero it is 0.
C15_HerfindahlIndex ==
    ReturnedFrom("calculate_herfindahl_index") =>
        LET w == metrics_args.weights
            hhi == metrics_result.value
        IN  /\ Total(w) = Fin(1, 1) =>
                  /\ ~Lt(hhi, Fin(0, 1)) /\ ~Gt(hhi, Fin(1, 1))
                  /\ hhi = Fin(1, 1) <=> \E i \in 1..Len(w) : w[i] = Fin(1, 1)
                  /\ (\A i \in 1..Len(w) : w[i] = w[1]) => hhi = Fin(1, Len(w))
            /\ w = <<Fin(1, 4), Fin(1, 4), Fin(1, 4), Fin(1, 4)>> => hhi = Fin(25, 100)
            /\ (\A i \in 1..Len(w) : w[i] = Fin(0, 1)) => hhi = Fin(0, 1)

\* C15, the case: three weights that sum to 1, not all equal, none zero.
C15_UnequalWeights ==
    /\ ReturnedFrom("calculate_herfindahl_index")
    /\ Len(metrics_args.weights) = 3
    /\ Total(metrics_args.weights) = Fin(1, 1)
    /\ metrics_args.weights[1] # metrics_args.weights[2]
    /\ GtZero(metrics_args.weights[3])
    /\ Gt(metrics_result.value, Fin(1, 3))

\* The weights <<1/2, 3/10, 1/5>>.
HalfThreeTenthsFifth == <<Fin(5, 10), Fin(3, 10), Fin(2, 10)>>

EntropyTolerance == LogUnit \div 1000

\* a is b up to the tolerance
Approx(a, b) == a - b <= EntropyTolerance /\ b - a <= EntropyTolerance

\* C16 as stated: the Shannon entropy (natural logarithm) of the weights
\* [0.5, 0.3, 0.2] is approximately 0.8755 nats.
C16_EntropyAsStated ==
    (ReturnedFrom("calculate_shannon_entropy") /\ metrics_args.weights = HalfThreeTenthsFifth)
        => Approx(metrics_result.value, (8755 * LogUnit) \div 10000)

\* C16, amended: the Shannon entropy (natural logarithm) of the weights
\* [0.5, 0.3, 0.2] is approximately 1.0297 nats.
C16_EntropyNats ==
    (ReturnedFrom("calculate_shannon_entropy") /\ metrics_args.weights = HalfThreeTenthsFifth)
        => Approx(metrics_result.value, (10297 * LogUnit) \div 10000)

\* C16, the case: the entropy of [0.5, 0.3, 0.2] has been computed.
C16_EntropyComputed ==
    /\ ReturnedFrom("calculate_shannon_entropy")
    /\ metrics_args.weights = HalfThreeTenthsFifth
    /\ metrics_result.value > 0

\* C17: the risk classification is a total function of (HHI, sector count,
\* dominant-sector weight) whose rules are tried in order: dominant weight
\* > 0.7 or HHI > 0.5 gives "Concentrated"; otherwise sector count >= 6 and
\* HHI < 0.25 gives "Diversified"; otherwise dominant weight > 0.4 gives
\* "Focused"; otherwise "Balanced".  (0.55, 3, 0.5) is "Concentrated" and
\* (0.2, 7, 0.2) is "Diversified".
C17_RiskCascade ==
    ReturnedFrom("classify_risk_profile") =>
        LET hhi == metrics_args.herfindahl_index
            sectors == metrics_args.num_sectors
            dominant == metrics_args.concentration_ratio
            label == metrics_result.value
            first == Gt(dominant, Fin(7, 10)) \/ Gt(hhi, Fin(1, 2))
            second == sectors >= 6 /\ Lt(hhi, Fin(1, 4))
            third == Gt(dominant, Fin(2, 5))
        IN  /\ label \in {"Concentrated", "Diversified", "Focused", "Balanced"}
            /\ label = "Concentrated" <=> first
            /\ label = "Diversified" <=> (~first /\ second)
            /\ label = "Focused" <=> (~first /\ ~second /\ third)
            /\ label = "Balanced" <=> (~first /\ ~second /\ ~third)
            /\ (hhi = Fin(55, 100) /\ sectors = 3 /\ dominant = Fin(1, 2))
                   => label = "Concentrated"
            /\ (hhi = Fin(1, 5) /\ sectors = 7 /\ dominant = Fin(1, 5))
                   => label = "Diversified"

\* C17, the case: six sectors with an index just under 0.25 and a dominant
\* weight over 0.4 are "Diversified", the second rule going before the third.
C17_SecondRuleBeforeThird ==
    /\ ReturnedFrom("classify_risk_profile")
    /\ metrics_args.num_sectors = 6
    /\ metrics_args.herfindahl_index = Fin(1, 5)
    /\ metrics_args.concentration_ratio = Fin(1, 2)
    /\ metrics_result.value = "Diversified"

\* C18: the classification of portfolio_metrics_generator returns
\* "Aggressive" when the dominant-sector weight is above 0.6 or HHI is above
\* 0.5; otherwise "Conservative" when the sector count is at least 5 and HHI
\* is below 0.3; otherwise "Balanced"; and every metrics row of a holder
\* carries one of these labels, or "Unknown" exactly when the holder has no
\* sector data.
C18_AlternateProfile ==
    /\ ReturnedFrom("generator.classify_risk_profile") =>
           LET hhi == metrics_args.herfindahl_index
               sectors == metrics_args.num_sectors
               dominant == metrics_args.concentration_ratio
               label == metrics_result.value
               aggressive == Gt(dominant, Fin(3, 5)) \/ Gt(hhi, Fin(1, 2))
               conservative == sectors >= 5 /\ Lt(hhi, Fin(3, 10))
           IN  /\ label = "Aggressive" <=> aggressive
               /\ label = "Conservative" <=> (~aggressive /\ conservative)
               /\ label = "Balanced" <=> (~aggressive /\ ~conservative)
    /\ (ReturnedFrom("calculate_politician_metrics")
             /\ metrics_result.value.returned = "dict") =>
           /\ metrics_result.value.risk_profile
                  \in {"Aggressive", "Conservative", "Balanced", "Unknown"}
           /\ metrics_result.value.risk_profile = "Unknown"
                  <=> metrics_args.sector_distribution = <<>>

\* C18, the case: a holder with five sectors of one asset each has a row
\* labelled "Conservative".
C18_ConservativeRow ==
    /\ ReturnedFrom("calculate_politician_metrics")
    /\ metrics_args.sector_distribution = <<1, 1, 1, 1, 1>>
    /\ metrics_result.value.risk_profile = "Conservative"
(***************************************************************************)
(* Claims about the generation of product embeddings (checked under        *)
(* SpecEmbed).                                                             *)
(***************************************************************************)
EmbedCalled(fns) == embed_call.fn \in fns

\* The flag the called function reads is False.
DependencyAbsent ==
    IF embed_call.fn = "generate_embeddings_for_method"
    THEN ~EMBEDDINGS_GENSIM_AVAILABLE ELSE ~GENSIM_AVAILABLE

\* A status dict that says the method was not available.
ReportedUnavailable ==
    /\ embed_result.kind = "returned"
    /\ "status" \in DOMAIN embed_result.value
    /\ embed_result.value.status = "skipped"

\* C19: when the optional tokenizer/training dependency is absent, selecting
\* the distributional method is reported as unavailable, a result the caller
\* can test for, and not as a failure or a raised exception.
C19_UnavailableNotRaised ==
    (embed_call.method = "word2vec" /\ embed_call.fn # "none" /\ DependencyAbsent)
        => ReportedUnavailable

\* C19, the case: generate_embeddings_for_method has been asked for word2vec
\* without the libraries and has answered "skipped".
C19_SkippedByDispatch ==
    /\ EmbedCalled({"generate_embeddings_for_method"})
    /\ embed_call.method = "word2vec"
    /\ DependencyAbsent
    /\ products_table # <<>>
    /\ ReportedUnavailable

\* The functions of product_embedding_generator.py.
GeneratorFunctions ==
    {"create_embedding", "generate_embeddings", "generate_and_store_products_embeddings"}

TextMethods == {"tfidf_basic", "word2vec", "glove"}

\* The word by which a message names the method.
MethodWord(method) ==
    CASE method = "tfidf_basic" -> "TF-IDF"
      [] method = "word2vec" -> "Word2Vec"
      [] method = "glove" -> "GloVe"

\* No product of the table has a token for the method.
EmptyVocabulary(method) ==
    IF method = "tfidf_basic"
    THEN \A i \in 1..Len(products_table) : Analyze(TextFeatures(products_table[i])) = <<>>
    ELSE \A i \in 1..Len(products_table) :
             simple_preprocess(TextFeatures(products_table[i])) = <<>>

ValidationFailure == embed_result.kind = "raised" /\ embed_result.type = "ValueError"

\* The method can run: it is supported and its library is there.
MethodSelectable ==
    /\ embed_call.method \in SUPPORTED_METHODS
    /\ embed_call.method \in {"word2vec", "glove"} => GENSIM_AVAILABLE

\* C20: every vectorization method rejects an empty product batch with a
\* validation failure, and every text-based method rejects an empty
\* vocabulary after tokenization with a validation failure that names the
\* method; in neither case is an empty matrix, an empty result or a default
\* returned.
C20_EmptyInputRejected ==
    (EmbedCalled(GeneratorFunctions) /\ MethodSelectable) =>
        /\ products_table = <<>> => ValidationFailure
        /\ (products_table # <<>> /\ embed_call.method \in TextMethods
                /\ EmptyVocabulary(embed_call.method)) =>
               /\ ValidationFailure
               /\ \E i \in 1..Len(embed_result.message) :
                      embed_result.message[i] = MethodWord(embed_call.method)

\* C20, the case: Word2Vec on products whose texts give no token has raised
\* the ValueError that names it.
C20_Word2VecRejected ==
    /\ EmbedCalled({"generate_and_store_products_embeddings"})
    /\ embed_call.method = "word2vec"
    /\ GENSIM_AVAILABLE
    /\ products_table # <<>>
    /\ EmptyVocabulary("word2vec")
    /\ ValidationFailure
    /\ embed_result.message[2] = "Word2Vec"

(***************************************************************************)
(* C21: one vector for each product, in the order of the products.         *)
(***************************************************************************)
\* The matrix a call returned: the value of one of the four functions, or
\* the embeddings of generate_embeddings.
ReturnedMatrix == embed_result.value.embeddings

\* The row holds the numbers of the product, or is a zero vector.  The
\* numbers of the hybrid method are those of the row of the product alone.
RowOfProduct(row, product, method) ==
    IF method = "custom_financial"
    THEN row = CustomRows(hash_of, <<product>>)[1]
    ELSE \A j \in 1..Len(row) : row[j] \in {product.id, 0}

\* The method makes vectors of the rows of the table without raising.
Vectorizes(method) ==
    CreateEmbedding(GENSIM_AVAILABLE, hash_of, products_table, method).kind = "returned"

\* C21: every vectorization method returns exactly one vector for each
\* product of the batch, in the order of the batch, a zero vector for a
\* product without a token of the vocabulary; so whenever the method makes
\* vectors, generate_and_store_products_embeddings stores for product id i
\* the vector computed from product i.
C21_OneVectorPerProduct ==
    /\ (/\ EmbedCalled({"create_embedding", "generate_embeddings"})
        /\ embed_result.kind = "returned")
       => /\ Len(ReturnedMatrix) = Len(products_table)
          /\ \A i \in 1..Len(products_table) :
                 RowOfProduct(ReturnedMatrix[i], products_table[i], embed_call.method)
    /\ (/\ EmbedCalled({"generate_and_store_products_embeddings"})
        /\ embed_call.method \in SUPPORTED_METHODS
        /\ products_table # <<>>
        /\ Vectorizes(embed_call.method))
       => /\ embed_result.kind = "returned"
          /\ \A i \in 1..Len(products_table) :
                 \E r \in product_embeddings :
                     /\ r.product_id = products_table[i].id
                     /\ r.method = embed_call.method
                     /\ RowOfProduct(r.embedding.v, products_table[i], embed_call.method)

\* C21, the case: TF-IDF has returned a vector for each of two products, a
\* zero vector for the one whose only word is a stop word.
C21_ZeroVectorKept ==
    /\ EmbedCalled({"create_embedding"})
    /\ embed_call.method = "tfidf_basic"
    /\ embed_result.kind = "returned"
    /\ Len(products_table) = 2
    /\ Len(ReturnedMatrix) = 2
    /\ \E i \in 1..2 : \A j \in 1..Len(ReturnedMatrix[i]) : ReturnedMatrix[i][j] = 0
    /\ \E i \in 1..2 : \E j \in 1..Len(ReturnedMatrix[i]) : ReturnedMatrix[i][j] # 0

(***************************************************************************)
(* Claims about the hybrid embedding over process runs (checked under      *)
(* SpecHybrid).                                                            *)
(***************************************************************************)
\* The same function made the hybrid embedding of the rows of the table in
\* this process and in the one before, and returned both times.
GeneratedAgain ==
    /\ embed_call.method = "custom_financial"
    /\ embed_before.call = embed_call
    /\ embed_result.kind = "returned"
    /\ embed_before.result.kind = "returned"

\* C22: the hybrid embedding is a deterministic function of the product
\* record (a deterministic hash of each categorical value to a bounded
\* bucket, the features in a fixed order), so the same records yield the
\* same vectors on every generation, also in separate process runs.
C22_SameVectorEveryRun ==
    GeneratedAgain => embed_result.value.embeddings = embed_before.result.value.embeddings

\* C22, the case: a product with a sector has been vectorized by the
\* hash-based function in two processes.
C22_HashedInTwoProcesses ==
    /\ GeneratedAgain
    /\ embed_call.fn = "create_embedding"
    /\ process_runs = 2
    /\ \E i \in 1..Len(products_table) : products_table[i].sector # NoText

(***************************************************************************)
(* Claims about the initialization pipeline (checked under SpecPipeline).  *)
(***************************************************************************)
\* The last call was a run of the pipeline.
PipelineRan == pipe_call.fn = "initialize_complete_analysis_pipeline"

\* The portfolio-embedding methods the run required.
RequiredMethods ==
    {RequiredOrDefault(pipe_call.required_methods)[i] :
         i \in 1..Len(RequiredOrDefault(pipe_call.required_methods))}

\* The database holds products every method can vectorize (gensim is
\* installed, every product has a token, TF-IDF keeps a term) and holdings.
Populated ==
    /\ products_table # <<>>
    /\ \A method \in SUPPORTED_METHODS : Vectorizes(method)
    /\ \A i \in 1..Len(products_table) :
           simple_preprocess(TextFeatures(products_table[i])) # <<>>
    /\ \E p \in PoliticianIds : assets_table[p] # <<>>

\* C23: initialize_complete_analysis_pipeline, run on a database that holds
\* products and holdings, returns True; and whenever it returns True,
\* portfolio embeddings are stored for every required method.
C23_PipelineSucceeds ==
    PipelineRan =>
        /\ Populated => pipe_result = TRUE
        /\ pipe_result = TRUE =>
               RequiredMethods \subseteq list_available_portfolio_methods(portfolio_embeddings)

\* C23, the case: a run of the pipeline on a database with products and
\* holdings has returned True.
C23_ReturnedTrue ==
    /\ PipelineRan
    /\ Populated
    /\ pipe_result = TRUE

\* The pipeline was run twice in a row with the same arguments, and the
\* first run returned True.
RanAgain ==
    /\ PipelineRan
    /\ pipe_before.call = pipe_call
    /\ pipe_before.result = TRUE

\* C24: a run of the pipeline after a successful run returns True again, and
\* every portfolio-embedding method available after the first run is still
\* available after the second.
C24_RerunSucceeds ==
    RanAgain =>
        /\ pipe_result = TRUE
        /\ pipe_before.methods \subseteq list_available_portfolio_methods(portfolio_embeddings)

\* C24, the case: the second of two runs has returned, with methods that
\* were available after the first.
C24_RanTwice ==
    /\ RanAgain
    /\ pipe_result = TRUE
    /\ pipe_before.methods # {}
    /\ product_before # {}

\* The run made the step of the function.
StepMade(function) == \E i \in 1..Len(pipe_steps) : pipe_steps[i].function = function

\* C26: check_product_embeddings_exist returns True if product embeddings
\* exist in the database and False otherwise, so the pipeline generates
\* product embeddings only when none are stored.
C26_ExistenceReported ==
    /\ check_product_embeddings_exist(product_embeddings) = (product_embeddings # {})
    /\ (PipelineRan /\ StepMade("generate_missing_product_embeddings"))
       => product_before = {}

\* C26, the case: the pipeline ran on a database that held product
\* embeddings.
C26_RanWithRowsStored ==
    /\ PipelineRan
    /\ product_before # {}
    /\ StepMade("check_product_embeddings_exist")

\* The place of a step in the order of the pipeline.
StepRank(function) ==
    CASE function = "check_product_embeddings_exist" -> 1
      [] function = "generate_missing_product_embeddings" -> 2
      [] function = "check_portfolio_embeddings_exist" -> 3
      [] function = "generate_missing_portfolio_embeddings" -> 4
      [] function = "check_portfolio_metrics_exist" -> 5
      [] function = "generate_missing_portfolio_metrics" -> 6

\* The steps that generate, and the check of each.
CheckOf(function) ==
    CASE function = "generate_missing_product_embeddings" -> "check_product_embeddings_exist"
      [] function = "generate_missing_portfolio_embeddings" ->
             "check_portfolio_embeddings_exist"
      [] function = "generate_missing_portfolio_metrics" -> "check_portfolio_metrics_exist"
      [] OTHER -> "none"

\* C28: the pipeline generates product embeddings, then portfolio
\* embeddings, then portfolio metrics, in that order; each generation runs
\* only when its existence check has reported missing data; and when a
\* generation fails the pipeline returns False without a later step.
C28_StepsInOrder ==
    PipelineRan =>
        /\ \A i, j \in 1..Len(pipe_steps) :
               i < j => StepRank(pipe_steps[i].function) < StepRank(pipe_steps[j].function)
        /\ \A i \in 1..Len(pipe_steps) :
               CheckOf(pipe_steps[i].function) # "none" =>
                   /\ i > 1
                   /\ pipe_steps[i - 1] = PipelineStep(CheckOf(pipe_steps[i].function), FALSE)
                   /\ ~pipe_steps[i].outcome => i = Len(pipe_steps) /\ pipe_result = FALSE

\* C28, the case: the generation of portfolio embeddings failed after the
\* product embeddings had been generated, and the run ended there.
C28_StoppedAfterFailure ==
    /\ PipelineRan
    /\ Len(pipe_steps) = 4
    /\ pipe_steps[2] = PipelineStep("generate_missing_product_embeddings", TRUE)
    /\ pipe_steps[4] = PipelineStep("generate_missing_portfolio_embeddings", FALSE)
    /\ pipe_result = FALSE

(***************************************************************************)
(* Claims about a portfolio embedding read back (checked under             *)
(* SpecRoundTrip).                                                         *)
(***************************************************************************)
\* The last call read the row of a key that is stored.
ReadBack == store_call.fn = "get_portfolio_embedding" /\ store_ret # PyNone

\* The row of the key the last call read: INSERT OR REPLACE keeps one row
\* for a key, written by the last store_portfolio_embedding of the key.
RowReadBack ==
    CHOOSE r \in portfolio_embeddings :
        r.politician_id = store_call.args[1] /\ r.method = store_call.args[2]

\* The float32 number that holds the stored number.
Number(value) == [bytes |-> "all", of |-> value]

\* C27: the vector get_portfolio_embedding returns is the vector last stored
\* for the politician and the method: it has the same length and the same
\* components, and the stored vector_dimension is the length read back.
C27_ReadBackEqualsStored ==
    ReadBack =>
        /\ Len(store_ret.v[1]) = Len(RowReadBack.embedding.v)
        /\ \A i \in 1..Len(RowReadBack.embedding.v) :
               store_ret.v[1][i] = Number(RowReadBack.embedding.v[i])
        /\ RowReadBack.vector_dimension = Len(store_ret.v[1])

\* C27, the case: a vector stored as a list has been read back, component
\* by component.
C27_ListReadBack ==
    /\ ReadBack
    /\ RowReadBack.embedding.dtype = "float32"
    /\ store_ret.v[1] = [i \in 1..Len(RowReadBack.embedding.v) |->
                             Number(RowReadBack.embedding.v[i])]
    /\ RowReadBack.vector_dimension = Len(store_ret.v[1])

(***************************************************************************)
(* Claims about the reports folder and the reports table (SpecReports).    *)
(***************************************************************************)
\* The ids of the rows the last call inserted.
NewReportIds == (Len(reports_before) + 1)..Len(reports_db)

IdFile(id) == [kind |-> "id", n |-> id]

StoredUnderItsId(id) ==
    /\ \E f \in report_folder :
           f.name = IdFile(id) /\ Sha1(f.content) = reports_db[id].checksum
    /\ reports_db[id].source_file = SqlText(RelativePath(IdFile(id)))

\* C25: after download_report or import_reports stored a report, its HTML
\* content is in the file <report id>.html, named by the integer id of its
\* row, and the source_file of the row is the project-relative path of that
\* file.
C25_StoredUnderItsId == \A id \in NewReportIds : StoredUnderItsId(id)

\* download_report stored a report under its id.
C25_DownloadStored ==
    /\ report_call.fn = "download_report"
    /\ NewReportIds # {}
    /\ \A id \in NewReportIds : StoredUnderItsId(id)

ImportedRows == {i \in 1..Len(reports_db) : reports_db[i].url = SqlNull}

StoredBefore(content) ==
    \E i \in 1..Len(reports_before) : reports_before[i].checksum = Sha1(content)

Duplicates ==
    {f \in folder_before : SizeKb(f.content) >= MIN_FILE_SIZE_KB /\ StoredBefore(f.content)}

\* C30: no two rows created by import have the same checksum; a run of
\* import_reports deletes the files whose checksum was stored already and
\* inserts nothing for them, and it returns the number of rows it inserted.
C30_OneRowPerChecksum ==
    /\ \A i, j \in ImportedRows :
           reports_db[i].checksum = reports_db[j].checksum => i = j
    /\ (report_call.fn = "import_reports" /\ report_call.files # <<>>) =>
           /\ \A f \in Duplicates : \A g \in report_folder : g.content # f.content
           /\ report_result = Return(PyInt(Len(reports_db) - Len(reports_before)))

\* A run found a file whose checksum was stored, deleted it and returned 0.
C30_DuplicateSkipped ==
    /\ report_call.fn = "import_reports"
    /\ report_result = Return(PyInt(0))
    /\ Duplicates # {}
    /\ \A f \in Duplicates : \A g \in report_folder : g.content # f.content

(***************************************************************************)
(* Claims about the assets of a report (SpecAssets).                       *)
(***************************************************************************)
ParentAssetIdOf(entry) == assets_db[entry.id].parent_asset_id

ParentInserted(entry) ==
    \E j \in 1..Len(parsing_log) : parsing_log[j].index = entry.parent_index.v

LinkedToParent(k) ==
    \E j \in 1..(k - 1) :
        /\ parsing_log[j].index = parsing_log[k].parent_index.v
        /\ ParentAssetIdOf(parsing_log[k]) = PyInt(parsing_log[j].id)

\* C29 as stated: every inserted asset that has a parent index comes after
\* the row of its parent and has that row's id as parent_asset_id; only
\* top-level assets are stored with no parent_asset_id.
C29_ChildAfterParent ==
    \A k \in 1..Len(parsing_log) :
        /\ parsing_log[k].parent_index # PyNone => LinkedToParent(k)
        /\ ParentAssetIdOf(parsing_log[k]) = PyNone =>
               parsing_log[k].parent_index = PyNone

\* C29: every inserted asset that has a parent index for which the run
\* inserted a row comes after that row and has its id as parent_asset_id;
\* an asset is stored with no parent_asset_id only if it is top-level or
\* no row was inserted for its parent.
C29_ChildAfterInsertedParent ==
    \A k \in 1..Len(parsing_log) :
        /\ (parsing_log[k].parent_index # PyNone /\ ParentInserted(parsing_log[k]))
               => LinkedToParent(k)
        /\ ParentAssetIdOf(parsing_log[k]) = PyNone =>
               \/ parsing_log[k].parent_index = PyNone
               \/ ~ParentInserted(parsing_log[k])

\* A child that the report lists before its parent was linked to it.
C29_ChildListedFirst ==
    \E k \in 1..Len(parsing_log) :
        /\ LinkedToParent(k)
        /\ \E i, j \in 1..Len(html_table) :
               /\ i < j
               /\ html_table[i].index = parsing_log[k].index
               /\ html_table[j].index = parsing_log[k].parent_index.v
               /\ html_table[j].name # <<>>
=============================================================================
